---------------------------- MODULE Spec2Model ----------------------------
(***************************************************************************)
(* Limit-state evaluation engine of MechanicalDesignTools: column          *)
(* buckling (analysis/columns.py, codes/structural/csa_s16/members.py),    *)
(* beam flexure (analysis/beams.py, csa_s16/members.py) and bolted         *)
(* connection checks (csa_s16/connections.py, connections/common/          *)
(* failure_modes.py, connections/shear/fin_plate.py).                      *)
(*                                                                         *)
(* The engine computes with Python floats.  The model computes with binary *)
(* floating point numbers of a 15 bit mantissa: a number is a record       *)
(* [m, e] that stands for m * 2^e, with m = 0 and e = 0, or                *)
(* 2^14 <= |m| < 2^15.  Every arithmetic operation rounds to the nearest   *)
(* number of that format, as the float operations of the code round to     *)
(* theirs.                                                                 *)
(***************************************************************************)
EXTENDS Integers, Sequences, FiniteSets, TLC

(***************************************************************************)
(* Float arithmetic                                                        *)
(***************************************************************************)
MantHi == 2^15

Abs(n) == IF n < 0 THEN 0 - n ELSE n

Sgn(n) == IF n < 0 THEN 0 - 1 ELSE IF n = 0 THEN 0 ELSE 1

\* integer quotient rounded towards zero
Quot(n, d) == Sgn(n) * Sgn(d) * (Abs(n) \div Abs(d))

\* the number of binary digits of n > 0
BitLen(n) == CHOOSE k \in 1..31 : n \div (2^(k - 1)) > 0 /\ (k = 31 \/ n \div (2^k) = 0)

\* a rounded mantissa that reached 2^15 moves to the next exponent
FCarry(q, e) ==
    IF Abs(q) = MantHi THEN [m |-> q \div 2, e |-> e + 1] ELSE [m |-> q, e |-> e]

\* m * 2^e with the mantissa moved by sh binary digits, rounded to nearest
FShift(m, e, sh) ==
    IF sh > 0
    THEN FCarry(Sgn(m) * ((Abs(m) + 2^(sh - 1)) \div (2^sh)), e + sh)
    ELSE [m |-> m * (2^(0 - sh)), e |-> e + sh]

\* the float nearest to m * 2^e
FNorm(m, e) ==
    IF m = 0 THEN [m |-> 0, e |-> 0] ELSE FShift(m, e, BitLen(Abs(m)) - 15)

\* float(n) of an integer
FInt(n) == FNorm(n, 0)

FZero == FInt(0)

FOne == FInt(1)

FNeg(a) == [m |-> 0 - a.m, e |-> a.e]

FMul(a, b) == FNorm(a.m * b.m, a.e + b.e)

\* a / b, b nonzero (the callers guard the zero divisor: Python raises there)
FDiv(a, b) == FNorm(Quot(a.m * (2^16), b.m), a.e - b.e - 16)

\* the literal n/d of the source text, e.g. 0.658 is FRat(658, 1000)
FRat(n, d) == FDiv(FInt(n), FInt(d))

\* the sum of two nonzero floats whose exponents differ by d = a.e - b.e
FAlign(a, b, d) ==
    IF d > 15 THEN a
    ELSE IF d < 0 - 15 THEN b
    ELSE IF d >= 0 THEN FNorm(a.m * (2^d) + b.m, b.e)
    ELSE FNorm(a.m + b.m * (2^(0 - d)), a.e)

FAdd(a, b) ==
    IF a.m = 0 THEN b
    ELSE IF b.m = 0 THEN a
    ELSE FAlign(a, b, a.e - b.e)

FSub(a, b) == FAdd(a, FNeg(b))

\* comparisons are exact on the represented values
FLe(a, b) == FSub(a, b).m <= 0

FLt(a, b) == FSub(a, b).m < 0

FGt(a, b) == FLt(b, a)

FGe(a, b) == FLe(b, a)

\* Python's min(a, b) and max(a, b): the first argument unless the second
\* is strictly smaller (larger)
FMin(a, b) == IF FLt(b, a) THEN b ELSE a

FMax(a, b) == IF FGt(b, a) THEN b ELSE a

\* one step of the bit-by-bit square root: r with bit b added if that fits
SqrtBit(n, r, b) ==
    IF r + 2^b <= 46340 /\ (r + 2^b) * (r + 2^b) <= n THEN r + 2^b ELSE r

\* floor of the square root of an integer 0 <= n < 2^31
ISqrt(n) ==
    SqrtBit(n, SqrtBit(n, SqrtBit(n, SqrtBit(n, SqrtBit(n, SqrtBit(n, SqrtBit(n,
    SqrtBit(n, SqrtBit(n, SqrtBit(n, SqrtBit(n, SqrtBit(n, SqrtBit(n, SqrtBit(n,
    SqrtBit(n, SqrtBit(n, 0, 15), 14), 13), 12), 11), 10), 9), 8), 7), 6), 5),
    4), 3), 2), 1), 0)

\* np.sqrt(a), a >= 0
FSqrt(a) ==
    IF a.m <= 0 THEN FZero
    ELSE IF a.e % 2 = 0 THEN FNorm(ISqrt(a.m * (2^16)), (a.e - 16) \div 2)
    ELSE FNorm(ISqrt(a.m * MantHi), (a.e - 15) \div 2)

FSquare(a) == FMul(a, a)

\* math.pi / np.pi
FPi == FRat(314159265, 100000000)

\* one step of Horner's rule for the exponential series: 1 + (z / k) h
ExpTerm(z, k, h) == FAdd(FOne, FMul(FDiv(z, FInt(k)), h))

\* exp(z) for |z| <= 1: the Taylor polynomial of degree 8
FExpSmall(z) ==
    ExpTerm(z, 1, ExpTerm(z, 2, ExpTerm(z, 3, ExpTerm(z, 4, ExpTerm(z, 5,
    ExpTerm(z, 6, ExpTerm(z, 7, ExpTerm(z, 8, FOne))))))))

\* exp(z) = exp(z / 4)^4
FExp(z) == FSquare(FSquare(FExpSmall(FDiv(z, FInt(4)))))

\* natural logarithm of 0.658
FLn658 == FRat(0 - 418550348, 1000000000)

\* 0.658 ** x
FPow658(x) == FExp(FMul(FLn658, x))

\* the float d units in the last place away from a
FUlp(a, d) == FNorm(a.m + d, a.e)

\* the integer nearest to a >= 0 (the digits a '.2f' format prints of 100 a)
FRound(a) ==
    IF a.e >= 0 THEN a.m * (2^a.e)
    ELSE IF a.e < 0 - 30 THEN 0
    ELSE (a.m + 2^(0 - a.e - 1)) \div (2^(0 - a.e))

(***************************************************************************)
(* Quantities (pint): a magnitude and a unit; to(unit) rescales.           *)
(***************************************************************************)
Q(mag, unit) == [mag |-> mag, unit |-> unit]

\* size of each unit in the base unit of its dimension (mm, MPa, kN, mm^2)
UnitFactor ==
    [mm |-> FOne, m |-> FInt(1000), ft |-> FRat(3048, 10),
     MPa |-> FOne, GPa |-> FInt(1000), ksi |-> FRat(6894757, 1000000),
     kN |-> FOne, N |-> FRat(1, 1000), kip |-> FRat(4448222, 1000000),
     mm2 |-> FOne, cm2 |-> FInt(100), inch |-> FRat(254, 10)]

\* quantity.to(unit).magnitude
ToMag(q, unit) ==
    IF q.unit = unit THEN q.mag
    ELSE FMul(q.mag, FDiv(UnitFactor[q.unit], UnitFactor[unit]))

\* quantity.to(unit)
InUnit(q, unit) == Q(ToMag(q, unit), unit)

(***************************************************************************)
(* Materials: get_material builds Sy, Sut in MPa and E in GPa.             *)
(***************************************************************************)
STRUCTURAL_DB ==
    [A36  |-> [Sy |-> 250, Sut |-> 400, E |-> 200],
     A992 |-> [Sy |-> 345, Sut |-> 450, E |-> 200],
     G350W |-> [Sy |-> 350, Sut |-> 450, E |-> 200]]

get_material(name) ==
    [name |-> name,
     yield_strength |-> Q(FInt(STRUCTURAL_DB[name].Sy), "MPa"),
     ultimate_strength |-> Q(FInt(STRUCTURAL_DB[name].Sut), "MPa"),
     elastic_modulus |-> Q(FInt(STRUCTURAL_DB[name].E), "GPa")]

(***************************************************************************)
(* Section records as the shape database stores them (AISC v16 metric      *)
(* table: a record holds the properties the shape has; dev_tools/          *)
(* ingest_aisc.py leaves out the properties the table does not give), and  *)
(* SectionProperties.__getattr__, which decodes a stored value.  PG600 and *)
(* PG450 are records of built-up girders registered as type W: the first   *)
(* has no rts and no ho, the second stores a null J.                       *)
(***************************************************************************)
\* an exception leaving a function
Raised(exc) == [outcome |-> "raised", exc |-> exc]

\* a null of the shape database (JSON null, Python None)
None == [none |-> TRUE]

\* a number of the shape database as the JSON file writes it, in decimal:
\* n / d with d a power of ten
Num(n, d) == [n |-> n, d |-> d]

\* the float json.load reads from the number
Float(v) == FRat(v.n, v.d)

SHAPE_DB ==
    [W18X50 |-> [type |-> "W", A |-> Num(9480, 1), rx |-> Num(187, 1),
                 ry |-> Num(419, 10), Zx |-> Num(1660, 1), Sx |-> Num(1460, 1),
                 Zy |-> Num(272, 1), Sy |-> Num(175, 1), J |-> Num(516, 1),
                 rts |-> Num(503, 10), ho |-> Num(442, 1), tw |-> Num(902, 100),
                 Ix |-> Num(333, 1), Iy |-> Num(167, 10), Cw |-> Num(816, 1),
                 W |-> Num(744, 10), d |-> Num(457, 1), bf |-> Num(190, 1)],
     W4X13 |-> [type |-> "W", A |-> Num(2470, 1), rx |-> Num(437, 10),
                ry |-> Num(254, 10), Zx |-> Num(103, 1), Sx |-> Num(895, 10),
                Zy |-> Num(479, 10), Sy |-> Num(311, 10), J |-> Num(629, 10),
                rts |-> Num(295, 10), ho |-> Num(97, 1), tw |-> Num(711, 100),
                d |-> Num(106, 1), bf |-> Num(103, 1), Ix |-> Num(470, 100),
                Iy |-> Num(161, 100)],
     C8X18_75 |-> [type |-> "C", A |-> Num(3550, 1), rx |-> Num(716, 10),
                   ry |-> Num(152, 10), Zx |-> Num(228, 1), Sx |-> Num(180, 1),
                   Zy |-> Num(356, 10), Sy |-> Num(166, 10), J |-> Num(181, 1),
                   rts |-> Num(203, 10), ho |-> Num(193, 1), tw |-> Num(124, 10),
                   H |-> Num(894, 1000), Ix |-> Num(183, 10),
                   Iy |-> Num(820, 1000)],
     WT6X25 |-> [type |-> "WT", A |-> Num(4710, 1), rx |-> Num(406, 10),
                 ry |-> Num(498, 10), Zx |-> Num(603, 10), Sx |-> Num(308, 10),
                 Zy |-> Num(874, 10), Sy |-> Num(574, 10), J |-> Num(370, 1),
                 tw |-> Num(940, 100), Ix |-> Num(778, 100),
                 Iy |-> Num(117, 10)],
     HSS6X6X1_4 |-> [type |-> "HSS", A |-> Num(3380, 1), rx |-> Num(594, 10),
                     ry |-> Num(594, 10), Zx |-> Num(183, 1), Sx |-> Num(154, 1),
                     Zy |-> Num(183, 1), Sy |-> Num(154, 1), J |-> Num(18100, 1),
                     C |-> Num(264, 1), Ix |-> Num(119, 10), Iy |-> Num(119, 10)],
     PG600 |-> [type |-> "W", A |-> Num(12000, 1), rx |-> Num(250, 1),
                ry |-> Num(45, 1), Zx |-> Num(2900, 1), Sx |-> Num(2600, 1),
                Zy |-> Num(300, 1), Sy |-> Num(190, 1), J |-> Num(600, 1),
                tw |-> Num(10, 1), Ix |-> Num(800, 1), Iy |-> Num(20, 1)],
     PG450 |-> [type |-> "W", A |-> Num(9000, 1), rx |-> Num(190, 1),
                ry |-> Num(40, 1), Zx |-> Num(1500, 1), Sx |-> Num(1300, 1),
                Zy |-> Num(250, 1), Sy |-> Num(160, 1), J |-> None,
                rts |-> Num(48, 1), ho |-> Num(430, 1), tw |-> Num(9, 1),
                Ix |-> Num(300, 1), Iy |-> Num(14, 1)]]

SectionNames == DOMAIN SHAPE_DB

\* SectionGroup with J scaled like the moments of inertia
SectionGroup_JasI(name) ==
    CASE name \in {"Ix", "Iy", "Iz", "Iw", "Sw1", "Sw2", "Sw3", "J"} ->
           [factor |-> 1000000, unit |-> "mm4"]
      [] name \in {"Zx", "Sx", "Zy", "Sy", "Sz", "Qf", "Qw", "C",
                   "SwA", "SwB", "SwC", "SzA", "SzB", "SzC"} ->
           [factor |-> 1000, unit |-> "mm3"]
      [] name = "Cw" -> [factor |-> 1000000000, unit |-> "mm6"]
      [] name \in {"A", "Wno"} -> [factor |-> 1, unit |-> "mm2"]
      [] name \in {"d", "bf", "tf", "tw", "h", "OD", "ID", "Ht", "B", "b", "t",
                   "kdes", "kdet", "k1", "x", "y", "eo", "xp", "yp",
                   "rx", "ry", "rz", "ro", "rts", "ho", "T", "WGi", "WGo",
                   "ddet", "bfdet", "twdet", "twdet_2", "tfdet", "tnom", "tdes",
                   "zA", "zB", "zC", "wA", "wB", "wC",
                   "PA", "PA2", "PB", "PC", "PD"} ->
           [factor |-> 1, unit |-> "mm"]
      [] name = "W" -> [factor |-> 1, unit |-> "kg/m"]
      [] OTHER -> [factor |-> 1, unit |-> ""]

\* the scaling group of a property name in SectionProperties.__getattr__ of
\* components/aisc_members.py: the factor the stored value is multiplied by
\* and the unit it is given ("" for the names returned as raw floats)
SectionGroup(name) ==
    CASE name \in {"Ix", "Iy", "Iz", "Iw", "Sw1", "Sw2", "Sw3"} ->
           [factor |-> 1000000, unit |-> "mm4"]
      [] name = "J" -> [factor |-> 1000, unit |-> "mm4"]
      [] name \in {"Zx", "Sx", "Zy", "Sy", "Sz", "Qf", "Qw", "C",
                   "SwA", "SwB", "SwC", "SzA", "SzB", "SzC"} ->
           [factor |-> 1000, unit |-> "mm3"]
      [] name = "Cw" -> [factor |-> 1000000000, unit |-> "mm6"]
      [] name \in {"A", "Wno"} -> [factor |-> 1, unit |-> "mm2"]
      [] name \in {"d", "bf", "tf", "tw", "h", "OD", "ID", "Ht", "B", "b", "t",
                   "kdes", "kdet", "k1", "x", "y", "eo", "xp", "yp",
                   "rx", "ry", "rz", "ro", "rts", "ho", "T", "WGi", "WGo",
                   "ddet", "bfdet", "twdet", "twdet_2", "tfdet", "tnom", "tdes",
                   "zA", "zB", "zC", "wA", "wB", "wC",
                   "PA", "PA2", "PB", "PC", "PD"} ->
           [factor |-> 1, unit |-> "mm"]
      [] name = "W" -> [factor |-> 1, unit |-> "kg/m"]
      [] OTHER -> [factor |-> 1, unit |-> ""]

\* SectionProperties.__getattr__ of components/aisc_members.py: the
\* quantity of a stored value, None for a stored null, the raw value for a
\* name of no group, AttributeError for a name the record does not hold
section_getattr(sec, name) ==
    IF name \in DOMAIN SHAPE_DB[sec]
    THEN IF SHAPE_DB[sec][name] = None THEN None
         ELSE IF name = "type" THEN SHAPE_DB[sec][name]
         ELSE IF SectionGroup(name).unit = "" THEN Float(SHAPE_DB[sec][name])
         ELSE Q(FMul(Float(SHAPE_DB[sec][name]), FInt(SectionGroup(name).factor)),
                SectionGroup(name).unit)
    ELSE Raised("AttributeError")

\* the same of standards/sections.py
StdSectionGroup(name) ==
    CASE name \in {"Ix", "Iy", "Iz", "Iw", "Sw1", "Sw2", "Sw3"} ->
           [factor |-> 1000000, unit |-> "mm4"]
      [] name = "J" -> [factor |-> 1000, unit |-> "mm4"]
      [] name \in {"Zx", "Sx", "Zy", "Sy", "Sz", "Qf", "Qw", "C",
                   "SwA", "SwB", "SwC", "SzA", "SzB", "SzC"} ->
           [factor |-> 1000, unit |-> "mm3"]
      [] name = "Cw" -> [factor |-> 1000000000, unit |-> "mm6"]
      [] name \in {"A", "Wno"} -> [factor |-> 1, unit |-> "mm2"]
      [] name \in {"d", "bf", "tf", "tw", "h", "OD", "ID", "Ht", "B", "b", "t",
                   "kdes", "kdet", "k1", "x", "y", "eo", "xp", "yp",
                   "rx", "ry", "rz", "ro", "rts", "ho", "T", "WGi", "WGo",
                   "ddet", "bfdet", "twdet", "twdet_2", "tfdet", "tnom", "tdes",
                   "zA", "zB", "zC", "wA", "wB", "wC",
                   "PA", "PA2", "PB", "PC", "PD"} ->
           [factor |-> 1, unit |-> "mm"]
      [] name = "W" -> [factor |-> 1, unit |-> "kg/m"]
      [] OTHER -> [factor |-> 1, unit |-> ""]

std_section_getattr(sec, name) ==
    IF name \in DOMAIN SHAPE_DB[sec]
    THEN IF SHAPE_DB[sec][name] = None THEN None
         ELSE IF name = "type" THEN SHAPE_DB[sec][name]
         ELSE IF StdSectionGroup(name).unit = "" THEN Float(SHAPE_DB[sec][name])
         ELSE Q(FMul(Float(SHAPE_DB[sec][name]), FInt(StdSectionGroup(name).factor)),
                StdSectionGroup(name).unit)
    ELSE Raised("AttributeError")

\* section.<name>.to(unit).magnitude for a property the record holds, in
\* the unit of its group (mm, mm^2, mm^3 or mm^4)
SectionAttr(sec, name) == section_getattr(sec, name).mag

HasAttr(sec, name) == name \in DOMAIN SHAPE_DB[sec]

\* section.<name>.to(...) succeeds: the record holds the name, and no null
Readable(sec, names) ==
    \A name \in names : HasAttr(sec, name) /\ SHAPE_DB[sec][name] # None

(***************************************************************************)
(* State.  heap holds the list objects that outlive a call: the default    *)
(* value of upper_lower_boundary_conditions of each compression function   *)
(* (one list object per function, created when the function is defined).   *)
(* call is the invocation the caller has made (its arguments, with the     *)
(* list object the caller owns), result what it returned or the exception  *)
(* it raised.  The caller makes one call at a time: it calls, uses the     *)
(* result, drops it and calls again.                                       *)
(***************************************************************************)
VARIABLES heap, call, result

vars == <<heap, call, result>>

Step(desc, ref) == [desc |-> desc, ref |-> ref]

(***************************************************************************)
(* get_k_factor                                                            *)
(***************************************************************************)
\* str.lower() and str.strip() on the end-condition strings of the model
StrLower(s) ==
    CASE s = "Fixed" -> "fixed"
      [] s = " Pinned " -> " pinned "
      [] s = "Weak" -> "weak"
      [] s = "Y" -> "y"
      [] s = "WEAK" -> "weak"
      [] OTHER -> s

StrStrip(s) ==
    CASE s = " Pinned " -> "Pinned"
      [] s = " pinned " -> "pinned"
      [] OTHER -> s

\* lexicographic order of the normalised strings
StrRank == [fixed |-> 1, free |-> 2, pinned |-> 3, rolled |-> 4, spring |-> 5]

\* Sorted2 that leaves the list in the order given
Sorted2_asgiven(l) == l

\* sorted() of a two-element list
Sorted2(l) == IF StrRank[l[2]] < StrRank[l[1]] THEN <<l[2], l[1]>> ELSE l

\* the mapping of get_k_factor, keyed by conds[0]-conds[1]
KMapping ==
    [key \in {<<"fixed", "fixed">>, <<"fixed", "pinned">>, <<"fixed", "rolled">>,
              <<"pinned", "pinned">>, <<"fixed", "free">>, <<"pinned", "rolled">>}
     |-> CASE key = <<"fixed", "fixed">> -> FRat(65, 100)
           [] key = <<"fixed", "pinned">> -> FRat(80, 100)
           [] key = <<"fixed", "rolled">> -> FRat(120, 100)
           [] key = <<"pinned", "pinned">> -> FRat(100, 100)
           [] key = <<"fixed", "free">> -> FRat(210, 100)
           [] key = <<"pinned", "rolled">> -> FRat(200, 100)]

\* get_k_factor whose fallback writes no warning
get_k_factor_silent(boundary_conditions) ==
    LET conds == Sorted2(<<StrStrip(StrLower(boundary_conditions[1])),
                           StrStrip(StrLower(boundary_conditions[2]))>>)
        key == <<conds[1], conds[2]>>
    IN  [k |-> IF key \in DOMAIN KMapping THEN KMapping[key] ELSE FOne, printed |-> <<>>]

\* k is the returned factor, printed the lines written to standard output
get_k_factor(boundary_conditions) ==
    LET conds == Sorted2(<<StrStrip(StrLower(boundary_conditions[1])),
                           StrStrip(StrLower(boundary_conditions[2]))>>)
        key == <<conds[1], conds[2]>>
    IN  IF key \in DOMAIN KMapping
        THEN [k |-> KMapping[key], printed |-> <<>>]
        ELSE [k |-> FOne, printed |-> <<"[WARNING] Unknown boundary conditions">>]

\* get_k_factor of codes/structural/csa_s16/members.py (the same text)
csa_get_k_factor(boundary_conditions) ==
    LET conds == Sorted2(<<StrStrip(StrLower(boundary_conditions[1])),
                           StrStrip(StrLower(boundary_conditions[2]))>>)
        key == <<conds[1], conds[2]>>
    IN  IF key \in DOMAIN KMapping
        THEN [k |-> KMapping[key], printed |-> <<>>]
        ELSE [k |-> FOne, printed |-> <<"[WARNING] Unknown boundary conditions">>]

(***************************************************************************)
(* Compression: calculate_compressive_strength (analysis/columns.py) and   *)
(* check_compressive_resistance (csa_s16/members.py).  bcRef names the     *)
(* list object bound to upper_lower_boundary_conditions (the caller's list *)
(* or the default object of the function), which the result echoes.  Each  *)
(* function is written as the chain of its numbered sections: a section    *)
(* receives the local variables computed so far.                           *)
(***************************************************************************)
\* GoverningAxis with the comparison turned around
GoverningAxis_swapped(KL_x, KL_y) == IF FLt(KL_x, KL_y) THEN "X-X" ELSE "Y-Y"

\* the axis reported as governing (columns.py:74, members.py:78)
GoverningAxis(KL_x, KL_y) == IF FGt(KL_x, KL_y) THEN "X-X" ELSE "Y-Y"

\* the slenderness that governs (columns.py:75, members.py:79)
GoverningSlenderness(KL_x, KL_y) == FMax(KL_x, KL_y)

\* RegimeIsInelastic with the boundary on the elastic side
RegimeIsInelastic_strict(KL_r_val, limit_slenderness) == FLt(KL_r_val, limit_slenderness)

\* the regime test (columns.py:125, members.py:122)
RegimeIsInelastic(KL_r_val, limit_slenderness) == FLe(KL_r_val, limit_slenderness)

\* Fcr of the regime (columns.py:131 and 154, members.py:125 and 145)
CriticalStress(inelastic, Fy_val, Fe_val) ==
    IF inelastic
    THEN FMul(FPow658(FDiv(Fy_val, Fe_val)), Fy_val)
    ELSE FMul(FRat(877, 1000), Fe_val)

\* SlendernessWarning that includes the limit
SlendernessWarning_inclusive(KL_r_val) == FGe(KL_r_val, FInt(200))

\* if KL_r_val > 200 (columns.py:86, members.py:89)
SlendernessWarning(KL_r_val) == FGt(KL_r_val, FInt(200))

\* CompressionTrace with the warning appended where the evaluation ends
CompressionTrace_late(k_val, KL_r_val, inelastic) ==
    <<[desc |-> "1. Design Variables", ref |-> "", k |-> k_val],
      Step("2. Slenderness Ratio (KL/r)", ""),
      Step("3. Elastic Buckling Stress (Fe)", "AISC Eq. E3-4"),
      Step("4. Buckling Regime Classification", "")>>
    \o (IF inelastic
        THEN <<Step("Classification: Inelastic Buckling", ""),
               Step("5. Critical Stress Calculation", "AISC Eq. E3-2")>>
        ELSE <<Step("Classification: Elastic Buckling", ""),
               Step("5. Critical Stress Calculation", "AISC Eq. E3-3")>>)
    \o <<Step("6. Nominal Compressive Strength", "AISC Eq. E3-1"),
         Step("7. Design Compressive Strength (LRFD)", "")>>
    \o (IF SlendernessWarning(KL_r_val) THEN <<Step("WARNING: Slenderness Limit", "")>>
        ELSE <<>>)

\* the steps appended to the trace, in order; the first holds K
CompressionTrace(k_val, KL_r_val, inelastic) ==
    <<[desc |-> "1. Design Variables", ref |-> "", k |-> k_val],
      Step("2. Slenderness Ratio (KL/r)", "")>>
    \o (IF SlendernessWarning(KL_r_val) THEN <<Step("WARNING: Slenderness Limit", "")>>
        ELSE <<>>)
    \o <<Step("3. Elastic Buckling Stress (Fe)", "AISC Eq. E3-4"),
         Step("4. Buckling Regime Classification", "")>>
    \o (IF inelastic
        THEN <<Step("Classification: Inelastic Buckling", ""),
               Step("5. Critical Stress Calculation", "AISC Eq. E3-2")>>
        ELSE <<Step("Classification: Elastic Buckling", ""),
               Step("5. Critical Stress Calculation", "AISC Eq. E3-3")>>)
    \o <<Step("6. Nominal Compressive Strength", "AISC Eq. E3-1"),
         Step("7. Design Compressive Strength (LRFD)", "")>>

\* compressive_strength_result with a resistance factor of 0.85
compressive_strength_result_phi85(bcRef, kf, governing_axis, KL_r_val, limit_slenderness, inelastic, Fcr_val, Pn_val) ==
    [outcome |-> "ok",
     Pn |-> Q(Pn_val, "kN"),
     Pu_capacity |-> Q(FMul(FRat(85, 100), Pn_val), "kN"),
     Fcr |-> Q(Fcr_val, "MPa"),
     slenderness |-> KL_r_val,
     slenderness_type |-> "float",
     limit_slenderness |-> limit_slenderness,
     failure_mode |-> IF inelastic THEN "Inelastic Buckling" ELSE "Elastic Buckling",
     governing_axis |-> governing_axis,
     k_factor |-> kf.k,
     boundary_conditions |-> bcRef,
     calc_trace |-> CompressionTrace(kf.k, KL_r_val, inelastic),
     printed |-> kf.printed]

\* section 7 and the return value of calculate_compressive_strength
compressive_strength_result(bcRef, kf, governing_axis, KL_r_val, limit_slenderness, inelastic, Fcr_val, Pn_val) ==
    [outcome |-> "ok",
     Pn |-> Q(Pn_val, "kN"),
     Pu_capacity |-> Q(FMul(FRat(9, 10), Pn_val), "kN"),
     Fcr |-> Q(Fcr_val, "MPa"),
     slenderness |-> KL_r_val,
     slenderness_type |-> "float",
     limit_slenderness |-> limit_slenderness,
     failure_mode |-> IF inelastic THEN "Inelastic Buckling" ELSE "Elastic Buckling",
     governing_axis |-> governing_axis,
     k_factor |-> kf.k,
     boundary_conditions |-> bcRef,
     calc_trace |-> CompressionTrace(kf.k, KL_r_val, inelastic),
     printed |-> kf.printed]

\* section 6: nominal strength
compressive_strength_nominal(bcRef, kf, Ag_val, governing_axis, KL_r_val, limit_slenderness, inelastic, Fcr_val) ==
    compressive_strength_result(bcRef, kf, governing_axis, KL_r_val, limit_slenderness,
        inelastic, Fcr_val, FMul(FMul(Fcr_val, Ag_val), FRat(1, 1000)))

\* section 5: critical stress of the regime
compressive_strength_critical(bcRef, kf, Fy_val, Ag_val, governing_axis, KL_r_val, limit_slenderness, inelastic, Fe_val) ==
    compressive_strength_nominal(bcRef, kf, Ag_val, governing_axis, KL_r_val,
        limit_slenderness, inelastic, CriticalStress(inelastic, Fy_val, Fe_val))

\* sections 3 and 4: elastic buckling stress and regime
compressive_strength_regime(bcRef, kf, E_val, Fy_val, Ag_val, governing_axis, KL_r_val, limit_slenderness) ==
    IF KL_r_val.m = 0 THEN Raised("ZeroDivisionError")
    ELSE compressive_strength_critical(bcRef, kf, Fy_val, Ag_val, governing_axis, KL_r_val,
             limit_slenderness, RegimeIsInelastic(KL_r_val, limit_slenderness),
             FDiv(FMul(FSquare(FPi), E_val), FSquare(KL_r_val)))

\* section 2: the governing slenderness, and the limit of section 4
compressive_strength_slenderness(bcRef, kf, E_val, Fy_val, Ag_val, KL_x, KL_y) ==
    compressive_strength_regime(bcRef, kf, E_val, Fy_val, Ag_val,
        GoverningAxis(KL_x, KL_y), GoverningSlenderness(KL_x, KL_y),
        FMul(FRat(471, 100), FSqrt(FDiv(E_val, Fy_val))))

\* section 1: the design variables
compressive_strength_setup(bcRef, kf, L_val, E_val, Fy_val, Ag_val, rx_val, ry_val) ==
    compressive_strength_slenderness(bcRef, kf, E_val, Fy_val, Ag_val,
        FDiv(FMul(kf.k, L_val), rx_val), FDiv(FMul(kf.k, L_val), ry_val))

calculate_compressive_strength(section, material, length, upper_lower_boundary_conditions, bcRef) ==
    compressive_strength_setup(bcRef, get_k_factor(upper_lower_boundary_conditions),
        ToMag(length, "mm"), ToMag(material.elastic_modulus, "MPa"),
        ToMag(material.yield_strength, "MPa"), SectionAttr(section, "A"),
        SectionAttr(section, "rx"), SectionAttr(section, "ry"))

\* section 7 and the return value of check_compressive_resistance
compressive_resistance_result(bcRef, kf, governing_axis, KL_r_val, limit_slenderness, inelastic, Fcr_val, Pn_val) ==
    [outcome |-> "ok",
     Pn |-> Q(Pn_val, "kN"),
     Pu_capacity |-> Q(FMul(FRat(9, 10), Pn_val), "kN"),
     Fcr |-> Q(Fcr_val, "MPa"),
     slenderness |-> KL_r_val,
     slenderness_type |-> "Quantity",
     limit_slenderness |-> limit_slenderness,
     failure_mode |-> IF inelastic THEN "Inelastic Buckling" ELSE "Elastic Buckling",
     governing_axis |-> governing_axis,
     k_factor |-> kf.k,
     boundary_conditions |-> bcRef,
     calc_trace |-> CompressionTrace(kf.k, KL_r_val, inelastic),
     printed |-> kf.printed]

\* section 6: nominal resistance
compressive_resistance_nominal(bcRef, kf, Ag_val, governing_axis, KL_r_val, limit_slenderness, inelastic, Fcr_val) ==
    compressive_resistance_result(bcRef, kf, governing_axis, KL_r_val, limit_slenderness,
        inelastic, Fcr_val, FMul(FMul(Fcr_val, Ag_val), FRat(1, 1000)))

\* section 5: critical stress of the regime
compressive_resistance_critical(bcRef, kf, Fy_val, Ag_val, governing_axis, KL_r_val, limit_slenderness, inelastic, Fe_val) ==
    compressive_resistance_nominal(bcRef, kf, Ag_val, governing_axis, KL_r_val,
        limit_slenderness, inelastic, CriticalStress(inelastic, Fy_val, Fe_val))

\* sections 3 and 4: elastic buckling stress and regime
compressive_resistance_regime(bcRef, kf, E_val, Fy_val, Ag_val, governing_axis, KL_r_val, limit_slenderness) ==
    IF KL_r_val.m = 0 THEN Raised("ZeroDivisionError")
    ELSE compressive_resistance_critical(bcRef, kf, Fy_val, Ag_val, governing_axis, KL_r_val,
             limit_slenderness, RegimeIsInelastic(KL_r_val, limit_slenderness),
             FDiv(FMul(FSquare(FPi), E_val), FSquare(KL_r_val)))

\* section 2: the governing slenderness, and the limit of section 4
compressive_resistance_slenderness(bcRef, kf, E_val, Fy_val, Ag_val, KL_x, KL_y) ==
    compressive_resistance_regime(bcRef, kf, E_val, Fy_val, Ag_val,
        GoverningAxis(KL_x, KL_y), GoverningSlenderness(KL_x, KL_y),
        FMul(FRat(471, 100), FSqrt(FDiv(E_val, Fy_val))))

\* section 1: the design variables
compressive_resistance_setup(bcRef, kf, L_val, E_val, Fy_val, Ag_val, rx_val, ry_val) ==
    compressive_resistance_slenderness(bcRef, kf, E_val, Fy_val, Ag_val,
        FDiv(FMul(kf.k, L_val), rx_val), FDiv(FMul(kf.k, L_val), ry_val))

check_compressive_resistance(section, material, length, upper_lower_boundary_conditions, bcRef) ==
    compressive_resistance_setup(bcRef, csa_get_k_factor(upper_lower_boundary_conditions),
        ToMag(length, "mm"), ToMag(material.elastic_modulus, "MPa"),
        ToMag(material.yield_strength, "MPa"), SectionAttr(section, "A"),
        SectionAttr(section, "rx"), SectionAttr(section, "ry"))

(***************************************************************************)
(* Flexure: check_flexural_resistance (csa_s16/members.py) and             *)
(* calculate_bending_capacity (analysis/beams.py).  The strong-axis        *)
(* formulas of the two functions are the same text; they are written once. *)
(***************************************************************************)
\* SupportedTypes without the channels
SupportedTypes_noChannels == {"W", "M", "S", "HP"}

\* the shape types flexure is implemented for (members.py:213, beams.py:18)
SupportedTypes == {"W", "M", "S", "HP", "C", "MC"}

\* Mp = (Fy Zx) 1e-6 (members.py:282, beams.py:51)
PlasticMoment(Fy_val, Zx_val) == FMul(FMul(Fy_val, Zx_val), FRat(1, 1000000))

\* Lp = 1.76 ry sqrt(E / Fy) / 1000, in m (members.py:294-295, beams.py:65-66)
CompactLimitLength(E_val, Fy_val, ry_val) ==
    FDiv(FMul(FMul(FRat(176, 100), ry_val), FSqrt(FDiv(E_val, Fy_val))), FInt(1000))

\* term_geom = (J c) / (Sx ho) with c = 1.0 (members.py:306-307, beams.py:78-79)
TermGeom(J_val, Sx_val, ho_val) == FDiv(FMul(J_val, FOne), FMul(Sx_val, ho_val))

\* term_stress = (0.7 Fy) / E (members.py:308, beams.py:80)
TermStress(E_val, Fy_val) == FDiv(FMul(FRat(7, 10), Fy_val), E_val)

\* outer_root_val (members.py:310-311, beams.py:86-87)
OuterRoot(term_geom, term_stress) ==
    FSqrt(FAdd(term_geom,
               FSqrt(FAdd(FSquare(term_geom), FMul(FRat(676, 100), FSquare(term_stress))))))

\* Lr = (1.95 rts (1 / term_stress) outer_root) / 1000, in m
\* (members.py:312, beams.py:88)
ElasticLimitLength(rts_val, term_stress, outer_root_val) ==
    FDiv(FMul(FMul(FMul(FRat(195, 100), rts_val), FDiv(FOne, term_stress)), outer_root_val),
         FInt(1000))

\* LtbZone with the boundary Lb = Lp moved to the upper zone
LtbZone_strict(Lb_val, Lp_val, Lr_val) ==
    IF FLt(Lb_val, Lp_val) THEN "Compact Zone (Zone 1)"
    ELSE IF FGe(Lb_val, Lp_val) /\ FLe(Lb_val, Lr_val) THEN "Inelastic LTB (Zone 2)"
    ELSE "Elastic LTB (Zone 3)"

\* the if / elif / else of the classification (members.py:335-366,
\* beams.py:116-152)
LtbZone(Lb_val, Lp_val, Lr_val) ==
    IF FLe(Lb_val, Lp_val) THEN "Compact Zone (Zone 1)"
    ELSE IF FGt(Lb_val, Lp_val) /\ FLe(Lb_val, Lr_val) THEN "Inelastic LTB (Zone 2)"
    ELSE "Elastic LTB (Zone 3)"

\* InelasticLtbMoment without the cap at Mp
InelasticLtbMoment_uncapped(cb, Fy_val, Sx_val, Lb_val, Lp_val, Lr_val, Mp_val) ==
    FMul(cb,
         FSub(Mp_val,
              FMul(FSub(Mp_val,
                        FMul(FMul(FMul(FRat(7, 10), Fy_val), Sx_val), FRat(1, 1000000))),
                   FDiv(FSub(Lb_val, Lp_val), FSub(Lr_val, Lp_val)))))

\* zone 2: Mn = min(cb (Mp - (Mp - Mr) fraction), Mp) (members.py:348-354,
\* beams.py:131-139)
InelasticLtbMoment(cb, Fy_val, Sx_val, Lb_val, Lp_val, Lr_val, Mp_val) ==
    FMin(FMul(cb,
              FSub(Mp_val,
                   FMul(FSub(Mp_val,
                             FMul(FMul(FMul(FRat(7, 10), Fy_val), Sx_val), FRat(1, 1000000))),
                        FDiv(FSub(Lb_val, Lp_val), FSub(Lr_val, Lp_val))))),
         Mp_val)

\* zone 3: Fcr of the slenderness Lb 1000 / rts (members.py:377, beams.py:166)
ElasticLtbStress(cb, E_val, term_geom, slenderness) ==
    FMul(FDiv(FMul(FMul(cb, FSquare(FPi)), E_val), FSquare(slenderness)),
         FSqrt(FAdd(FOne, FMul(FMul(FRat(78, 1000), term_geom), FSquare(slenderness)))))

\* zone 3: Mn = min(Fcr Sx 1e-6, Mp) (members.py:367-387, beams.py:154-179)
ElasticLtbMoment(cb, E_val, Sx_val, rts_val, Lb_val, Mp_val, term_geom) ==
    FMin(FMul(FMul(ElasticLtbStress(cb, E_val, term_geom,
                                    FDiv(FMul(Lb_val, FInt(1000)), rts_val)),
                   Sx_val),
              FRat(1, 1000000)),
         Mp_val)

\* Mn of the zone (members.py:335-397, beams.py:116-187)
NominalMoment(zone_desc, cb, E_val, Fy_val, Sx_val, rts_val, Lb_val, Lp_val, Lr_val, Mp_val, term_geom) ==
    CASE zone_desc = "Compact Zone (Zone 1)" -> Mp_val
      [] zone_desc = "Inelastic LTB (Zone 2)" ->
           InelasticLtbMoment(cb, Fy_val, Sx_val, Lb_val, Lp_val, Lr_val, Mp_val)
      [] zone_desc = "Elastic LTB (Zone 3)" ->
           ElasticLtbMoment(cb, E_val, Sx_val, rts_val, Lb_val, Mp_val, term_geom)

\* the steps of the strong-axis path, in order
FlexureTrace(zone_desc) ==
    <<Step("1. Design Variables", ""),
      Step("2. Plastic Moment Capacity (Mp)", "AISC Eq. F2-1"),
      Step("3a. Compact Limit Length (Lp)", "AISC Eq. F2-5"),
      Step("3b. Elastic Limit Length (Lr)", "AISC Eq. F2-6"),
      Step("4. Slenderness Classification", "")>>
    \o (CASE zone_desc = "Compact Zone (Zone 1)" -> <<Step("Conclusion: Zone 1", "")>>
          [] zone_desc = "Inelastic LTB (Zone 2)" ->
               <<Step("5. Nominal Strength (Inelastic LTB)", "AISC Eq. F2-2")>>
          [] zone_desc = "Elastic LTB (Zone 3)" ->
               <<Step("5a. Slenderness Ratio", ""),
                 Step("5b. Critical Buckling Stress (Fcr)", "AISC Eq. F2-4"),
                 Step("5c. Nominal Strength", "")>>)
    \o <<Step("6. Design Strength (LRFD)", "")>>

\* section 6 and the return value of check_flexural_resistance
flexural_resistance_result(Lp_val, Lr_val, zone_desc, Mn_val) ==
    [outcome |-> "ok",
     Mn |-> Q(Mn_val, "kNm"),
     Mu_capacity |-> Q(FMul(FRat(9, 10), Mn_val), "kNm"),
     Lp |-> Q(Lp_val, "m"),
     Lr |-> Q(Lr_val, "m"),
     ltb_zone |-> zone_desc,
     calc_trace |-> FlexureTrace(zone_desc)]

\* section 5: the nominal strength of the zone
flexural_resistance_nominal(zone_desc, cb, E_val, Fy_val, Sx_val, rts_val, Lb_val, Lp_val, Lr_val, Mp_val, term_geom) ==
    flexural_resistance_result(Lp_val, Lr_val, zone_desc,
        NominalMoment(zone_desc, cb, E_val, Fy_val, Sx_val, rts_val, Lb_val, Lp_val, Lr_val,
                      Mp_val, term_geom))

\* section 4: classification
flexural_resistance_classify(cb, E_val, Fy_val, Sx_val, rts_val, Lb_val, Lp_val, Lr_val, Mp_val, term_geom) ==
    flexural_resistance_nominal(LtbZone(Lb_val, Lp_val, Lr_val), cb, E_val, Fy_val, Sx_val, rts_val,
        Lb_val, Lp_val, Lr_val, Mp_val, term_geom)

\* section 3: the limiting lengths
flexural_resistance_limits(cb, E_val, Fy_val, Sx_val, ry_val, rts_val, Lb_val, Mp_val, term_geom, term_stress) ==
    flexural_resistance_classify(cb, E_val, Fy_val, Sx_val, rts_val, Lb_val,
        CompactLimitLength(E_val, Fy_val, ry_val),
        ElasticLimitLength(rts_val, term_stress, OuterRoot(term_geom, term_stress)),
        Mp_val, term_geom)

\* sections 1 and 2 of the strong-axis path: design variables, plastic moment
flexural_resistance_strong(cb, E_val, Fy_val, Lb_val, Sx_val, Zx_val, ry_val, rts_val, J_val, ho_val) ==
    flexural_resistance_limits(cb, E_val, Fy_val, Sx_val, ry_val, rts_val, Lb_val,
        PlasticMoment(Fy_val, Zx_val), TermGeom(J_val, Sx_val, ho_val),
        TermStress(E_val, Fy_val))

\* the return value of the weak-axis path
flexural_resistance_weak_result(Mn_val) ==
    [outcome |-> "ok",
     Mn |-> Q(Mn_val, "kNm"),
     Mu_capacity |-> Q(FMul(FRat(9, 10), Mn_val), "kNm"),
     ltb_zone |-> "Weak Axis",
     calc_trace |-> <<Step("1. Design Variables (Weak Axis)", ""),
                      Step("2. Nominal Flexural Strength", "AISC Eq. F6-1")>>]

\* the weak-axis path: Mn = min(Fy Zy, 1.6 Fy Sy), in kNm
flexural_resistance_weak(Fy_val, Zy_val, Sy_val) ==
    flexural_resistance_weak_result(
        FMin(FMul(FMul(Fy_val, Zy_val), FRat(1, 1000000)),
             FMul(FMul(FMul(FRat(16, 10), Fy_val), Sy_val), FRat(1, 1000000))))

\* a property the record lacks, or holds as null, ends the evaluation at
\* section.<name>.to(...): AttributeError (members.py:223-224, 257-262)
check_flexural_resistance(section, material, unbraced_length, axis, cb) ==
    IF SHAPE_DB[section].type \notin SupportedTypes THEN Raised("NotImplementedError")
    ELSE IF StrLower(axis) \in {"weak", "y"}
    THEN IF ~Readable(section, {"Zy", "Sy"}) THEN Raised("AttributeError")
         ELSE flexural_resistance_weak(ToMag(material.yield_strength, "MPa"),
                  SectionAttr(section, "Zy"), SectionAttr(section, "Sy"))
    ELSE IF ~Readable(section, {"Sx", "Zx", "ry", "rts", "J", "ho"})
    THEN Raised("AttributeError")
    ELSE flexural_resistance_strong(cb, ToMag(material.elastic_modulus, "MPa"),
             ToMag(material.yield_strength, "MPa"), ToMag(unbraced_length, "m"),
             SectionAttr(section, "Sx"), SectionAttr(section, "Zx"),
             SectionAttr(section, "ry"), SectionAttr(section, "rts"),
             SectionAttr(section, "J"), SectionAttr(section, "ho"))

\* section 6 and the return value of calculate_bending_capacity
bending_capacity_result(Lp_val, Lr_val, zone_desc, Mn_val) ==
    [outcome |-> "ok",
     Mn |-> Q(Mn_val, "kNm"),
     Mu_capacity |-> Q(FMul(FRat(9, 10), Mn_val), "kNm"),
     Lp |-> Q(Lp_val, "m"),
     Lr |-> Q(Lr_val, "m"),
     ltb_zone |-> zone_desc,
     calc_trace |-> FlexureTrace(zone_desc)]

\* section 5: the nominal strength of the zone
bending_capacity_nominal(zone_desc, cb, E_val, Fy_val, Sx_val, rts_val, Lb_val, Lp_val, Lr_val, Mp_val, term_geom) ==
    bending_capacity_result(Lp_val, Lr_val, zone_desc,
        NominalMoment(zone_desc, cb, E_val, Fy_val, Sx_val, rts_val, Lb_val, Lp_val, Lr_val,
                      Mp_val, term_geom))

\* section 4: classification
bending_capacity_classify(cb, E_val, Fy_val, Sx_val, rts_val, Lb_val, Lp_val, Lr_val, Mp_val, term_geom) ==
    bending_capacity_nominal(LtbZone(Lb_val, Lp_val, Lr_val), cb, E_val, Fy_val, Sx_val, rts_val,
        Lb_val, Lp_val, Lr_val, Mp_val, term_geom)

\* section 3: the limiting lengths
bending_capacity_limits(cb, E_val, Fy_val, Sx_val, ry_val, rts_val, Lb_val, Mp_val, term_geom, term_stress) ==
    bending_capacity_classify(cb, E_val, Fy_val, Sx_val, rts_val, Lb_val,
        CompactLimitLength(E_val, Fy_val, ry_val),
        ElasticLimitLength(rts_val, term_stress, OuterRoot(term_geom, term_stress)),
        Mp_val, term_geom)

\* sections 1 and 2 of the strong-axis path: design variables, plastic moment
bending_capacity_strong(cb, E_val, Fy_val, Lb_val, Sx_val, Zx_val, ry_val, rts_val, J_val, ho_val) ==
    bending_capacity_limits(cb, E_val, Fy_val, Sx_val, ry_val, rts_val, Lb_val,
        PlasticMoment(Fy_val, Zx_val), TermGeom(J_val, Sx_val, ho_val),
        TermStress(E_val, Fy_val))

\* axis is accepted and not read
calculate_bending_capacity(section, material, unbraced_length, axis, cb) ==
    IF SHAPE_DB[section].type \notin SupportedTypes THEN Raised("NotImplementedError")
    ELSE IF ~Readable(section, {"Sx", "Zx", "ry", "rts", "J", "ho"})
    THEN Raised("AttributeError")
    ELSE bending_capacity_strong(cb, ToMag(material.elastic_modulus, "MPa"),
             ToMag(material.yield_strength, "MPa"), ToMag(unbraced_length, "m"),
             SectionAttr(section, "Sx"), SectionAttr(section, "Zx"),
             SectionAttr(section, "ry"), SectionAttr(section, "rts"),
             SectionAttr(section, "J"), SectionAttr(section, "ho"))

(***************************************************************************)
(* Connection checks of csa_s16/connections.py.  status is the PASS/FAIL   *)
(* flag a check returns.                                                   *)
(***************************************************************************)
\* the characters str.strip() removes
Whitespace == {" ", "\t", "\n"}

\* the positions of s that hold no whitespace
Ink(s) == {i \in DOMAIN s : s[i] \notin Whitespace}

\* str.strip()
Strip(s) ==
    IF Ink(s) = {} THEN <<>>
    ELSE SubSeq(s, CHOOSE i \in Ink(s) : \A j \in Ink(s) : i <= j,
                   CHOOSE i \in Ink(s) : \A j \in Ink(s) : i >= j)

\* t in s: t occurs in s as a run of consecutive elements
Contains(s, t) == \E i \in 0..(Len(s) - Len(t)) : SubSeq(s, i + 1, i + Len(t)) = t

\* str.replace(old, new) for a non-empty old: every occurrence, from the left
RECURSIVE ReplaceAll(_, _, _)
ReplaceAll(s, old, new) ==
    IF Len(s) < Len(old) THEN s
    ELSE IF SubSeq(s, 1, Len(old)) = old
    THEN new \o ReplaceAll(SubSeq(s, Len(old) + 1, Len(s)), old, new)
    ELSE <<Head(s)>> \o ReplaceAll(Tail(s), old, new)

\* _BOLT_STRENGTHS, in the order the dictionary is written
BOLT_STRENGTHS ==
    <<[key |-> "A325", val |-> 825], [key |-> "F3125", val |-> 825],
      [key |-> "A490", val |-> 1035], [key |-> "Grade 8.8", val |-> 800],
      [key |-> "Grade 10.9", val |-> 1000]>>

\* the characters of the table keys and of the grade strings of the model
Text(str) ==
    CASE str = "" -> <<>>
      [] str = "A325" -> <<"A", "3", "2", "5">>
      [] str = "F3125" -> <<"F", "3", "1", "2", "5">>
      [] str = "A490" -> <<"A", "4", "9", "0">>
      [] str = "Grade 8.8" -> <<"G", "r", "a", "d", "e", " ", "8", ".", "8">>
      [] str = "Grade 10.9" -> <<"G", "r", "a", "d", "e", " ", "1", "0", ".", "9">>
      [] str = "ASTM" -> <<"A", "S", "T", "M">>
      [] str = "ASTM A325" -> <<"A", "S", "T", "M", " ", "A", "3", "2", "5">>
      [] str = "ASTM F3125 A490" ->
           <<"A", "S", "T", "M", " ", "F", "3", "1", "2", "5", " ", "A", "4", "9", "0">>
      [] str = "a325" -> <<"a", "3", "2", "5">>
      [] str = "8.8" -> <<"8", ".", "8">>
      [] str = "10.9" -> <<"1", "0", ".", "9">>
      [] str = "B7" -> <<"B", "7">>

\* bolt_grade.replace("ASTM", "").strip()
CleanGrade(bolt_grade) == Strip(ReplaceAll(Text(bolt_grade), Text("ASTM"), <<>>))

\* a in b (substring)
StrIn(a, b) == Contains(b, a)

\* FirstStrength that keeps the last entry among hits
FirstStrength_last(hits) ==
    IF hits = {} THEN 825
    ELSE BOLT_STRENGTHS[CHOOSE i \in hits : \A j \in hits : i >= j].val

\* the value of the first entry among hits, or the default 825.0 (A325)
FirstStrength(hits) ==
    IF hits = {} THEN 825
    ELSE BOLT_STRENGTHS[CHOOSE i \in hits : \A j \in hits : i <= j].val

\* the lookup loop: the first key that is in the grade or that the grade is in
BoltStrength(clean_grade) ==
    FirstStrength({i \in DOMAIN BOLT_STRENGTHS :
                     \/ StrIn(Text(BOLT_STRENGTHS[i].key), clean_grade)
                     \/ StrIn(clean_grade, Text(BOLT_STRENGTHS[i].key))})

\* PassIfWithin with the boundary utilization failing
PassIfWithin_strict(util) == IF FLt(util, FOne) THEN "PASS" ELSE "FAIL"

\* "PASS" if util <= 1.0 else "FAIL" (connections.py:102 and 173)
PassIfWithin(util) == IF FLe(util, FOne) THEN "PASS" ELSE "FAIL"

\* the return value of check_bolt_shear
bolt_shear_result(Vr_one, Vr_total, util) ==
    [outcome |-> "ok",
     Vr |-> Q(Vr_one, "kN"),
     total_resistance |-> Q(Vr_total, "kN"),
     utilization |-> util,
     status |-> PassIfWithin(util),
     calc_trace |-> <<Step("1. Bolt Parameters", ""), Step("2. Bolt Area", ""),
                      Step("3. Factored Shear Resistance (Per Bolt)", "CSA S16 Cl. 13.11.2"),
                      Step("4. Total Shear Resistance", ""),
                      Step("5. Check Utilization", "")>>]

\* section 4: utilization
bolt_shear_utilization(Vf_val, Vr_one, Vr_total) ==
    IF Vr_total.m = 0 THEN Raised("ZeroDivisionError")
    ELSE bolt_shear_result(Vr_one, Vr_total, FDiv(Vf_val, Vr_total))

\* section 3: resistance of the group
bolt_shear_total(n_bolts, Vf_val, Vr_one) ==
    bolt_shear_utilization(Vf_val, Vr_one, FMul(Vr_one, FInt(n_bolts)))

\* Vr_one = 0.60 phi_b Ab Fu_bolt m_planes 1e-3 with phi_b = 0.80 and
\* m_planes = 1.0
bolt_shear_resistance(n_bolts, Vf_val, Fu_bolt, Ab) ==
    bolt_shear_total(n_bolts, Vf_val,
        FMul(FMul(FMul(FMul(FMul(FRat(60, 100), FRat(80, 100)), Ab), Fu_bolt), FOne),
             FRat(1, 1000)))

\* sections 1 and 2: parameters and the bolt area pi db^2 / 4
check_bolt_shear(n_bolts, bolt_diameter, bolt_grade, factored_shear) ==
    bolt_shear_resistance(n_bolts, ToMag(factored_shear, "kN"),
        FInt(BoltStrength(CleanGrade(bolt_grade))),
        FDiv(FMul(FPi, FSquare(ToMag(bolt_diameter, "mm"))), FInt(4)))

\* f"1. Bearing Parameters ({member_name})"
BearingDesc(member_name) ==
    CASE member_name = "Fin Plate" -> "1. Bearing Parameters (Fin Plate)"
      [] member_name = "Beam Web" -> "1. Bearing Parameters (Beam Web)"
      [] OTHER -> "1. Bearing Parameters (Member)"

\* the return value of check_bearing
bearing_result(member_name, Br_val, util) ==
    [outcome |-> "ok",
     Br |-> Q(Br_val, "kN"),
     total_resistance |-> Q(Br_val, "kN"),
     utilization |-> util,
     status |-> PassIfWithin(util),
     calc_trace |-> <<Step(BearingDesc(member_name), ""),
                      Step("2. Factored Bearing Resistance", "CSA S16 Cl. 13.12.1.2"),
                      Step("3. Check Utilization", "")>>]

\* section 3: the check
bearing_utilization(member_name, Vf_val, Br_val) ==
    IF Br_val.m = 0 THEN Raised("ZeroDivisionError")
    ELSE bearing_result(member_name, Br_val, FDiv(Vf_val, Br_val))

\* Br = 3 phi_br t d Fu 1e-3 with phi_br = 0.80; end_distance is not read
check_bearing(bolt_diameter, plate_thickness, end_distance, material, factored_force, member_name) ==
    bearing_utilization(member_name, ToMag(factored_force, "kN"),
        FMul(FMul(FMul(FMul(FMul(FInt(3), FRat(80, 100)), ToMag(plate_thickness, "mm")),
                       ToMag(bolt_diameter, "mm")),
                  ToMag(material.ultimate_strength, "MPa")),
             FRat(1, 1000)))

\* the return value of check_block_shear: status and utilization are
\* computed from Vr and the force by separate expressions
block_shear_result(Force_val, Vr) ==
    [outcome |-> "ok",
     capacity |-> Q(Vr, "kN"),
     utilization |-> IF FGt(Vr, FZero) THEN FDiv(Force_val, Vr) ELSE FInt(999),
     status |-> IF FGe(Vr, Force_val) THEN "PASS" ELSE "FAIL",
     calc_trace |-> <<Step("Block Shear Geometry", ""),
                      Step("Block Shear Capacity", "CSA S16 13.11 / AISC J4.3")>>]

\* Rn = min(Rn_1, Rn_2) and Vr = phi_u Rn 1e-3 with phi_u = 0.75
block_shear_capacity(Force_val, Rn_1, Rn_2) ==
    block_shear_result(Force_val,
        FMul(FMul(FRat(75, 100), FMin(Rn_1, Rn_2)), FRat(1, 1000)))

\* Rn_1 = 0.6 Fu Anv + Ubs Fu Ant and Rn_2 = 0.6 Fy Agv + Ubs Fu Ant
block_shear_terms(Fy, Fu, Agv_val, Anv_val, Ant_val, Force_val, Ubs) ==
    block_shear_capacity(Force_val,
        FAdd(FMul(FMul(FRat(6, 10), Fu), Anv_val), FMul(FMul(Ubs, Fu), Ant_val)),
        FAdd(FMul(FMul(FRat(6, 10), Fy), Agv_val), FMul(FMul(Ubs, Fu), Ant_val)))

check_block_shear(Agv, Anv, Ant, material, factored_force, Ubs) ==
    block_shear_terms(ToMag(material.yield_strength, "MPa"),
        ToMag(material.ultimate_strength, "MPa"), ToMag(Agv, "mm2"), ToMag(Anv, "mm2"),
        ToMag(Ant, "mm2"), ToMag(factored_force, "kN"), Ubs)

(***************************************************************************)
(* The shared helpers of connections/common/failure_modes.py, and the      *)
(* bolts of components/fastener.py they are given.                         *)
(***************************************************************************)
\* _ISO_DATA: tensile stress area (mm^2) of a thread size
ISO_DATA == [M16 |-> 157, M20 |-> 245, M24 |-> 353]

\* _MAT_DB: Sut (MPa) of a property class
MAT_DB == ("8.8" :> 800) @@ ("10.9" :> 1040)

create_standard_bolt(size, grade) ==
    [thread |-> [name |-> size, stress_area |-> Q(FInt(ISO_DATA[size]), "mm2")],
     material |-> [name |-> grade, tensile_strength |-> Q(FInt(MAT_DB[grade]), "MPa")]]

\* Vr_total = Vr_one num_bolts
bolt_shear_group_total(num_bolts, Vr_one) ==
    [outcome |-> "ok",
     capacity |-> Q(FMul(Vr_one, FInt(num_bolts)), "kN"),
     step |-> Step("Bolt Group Shear Capacity", "CSA S16 13.11.2")]

\* Vr_one = 0.6 phi Ab Fub num_shear_planes 1e-3 with phi = 0.80
check_bolt_shear_group(num_bolts, bolt_object, num_shear_planes) ==
    bolt_shear_group_total(num_bolts,
        FMul(FMul(FMul(FMul(FMul(FRat(6, 10), FRat(80, 100)),
                            ToMag(bolt_object.thread.stress_area, "mm2")),
                       ToMag(bolt_object.material.tensile_strength, "MPa")),
                  FInt(num_shear_planes)),
             FRat(1, 1000)))

\* x.magnitude of a quantity: the number, whatever the unit
Magnitude(x) == x.mag

\* Rn = (R_shear + R_tension) 1e-3 and Vr = phi Rn with phi = 0.75
block_shear_rupture_capacity(R_shear, R_tension) ==
    [outcome |-> "ok",
     capacity |-> Q(FMul(FRat(75, 100), FMul(FAdd(R_shear, R_tension), FRat(1, 1000))), "kN"),
     step |-> Step("Block Shear Rupture", "AISC J4.3 / CSA 13.11")]

\* R_shear = 0.6 Fu Anv and R_tension = Ubs Fu Ant, on the raw magnitudes
check_block_shear_rupture(Fu_elem, Anv, Ant, Ubs) ==
    block_shear_rupture_capacity(
        FMul(FMul(FRat(6, 10), Magnitude(Fu_elem)), Magnitude(Anv)),
        FMul(FMul(Ubs, Magnitude(Fu_elem)), Magnitude(Ant)))

(***************************************************************************)
(* FinPlateConnection (connections/shear/fin_plate.py).  A connection is   *)
(* the record of the fields its constructor stores; bolt_pattern and       *)
(* bolt_spec are the dictionaries the caller gave, lengths in mm.          *)
(***************************************************************************)
\* arithmetic of quantities: the right operand is brought to the unit of
\* the left one
QAdd(a, b) == Q(FAdd(a.mag, ToMag(b, a.unit)), a.unit)

QSub(a, b) == Q(FSub(a.mag, ToMag(b, a.unit)), a.unit)

QScale(f, a) == Q(FMul(f, a.mag), a.unit)

QDiv(a, f) == Q(FDiv(a.mag, f), a.unit)

\* the product of two lengths, an area
QArea(a, b) == Q(FMul(ToMag(a, "mm"), ToMag(b, "mm")), "mm2")

\* dict.get(key, default)
Get(dict, key, default) == IF key \in DOMAIN dict THEN dict[key] ELSE default

\* the order of the mode names as strings
ModeRank == ("Bearing" :> 1) @@ ("Block Shear" :> 2) @@ ("Bolt Shear" :> 3)

\* the order of the tuples (utilization, name)
ModeLess(a, b) ==
    \/ FLt(a.util, b.util)
    \/ a.util = b.util /\ ModeRank[a.mode] < ModeRank[b.mode]

\* MaxMode taking the first check of the list
MaxMode_first(modes) == modes[1]

\* max(modes)
MaxMode(modes) ==
    modes[CHOOSE i \in DOMAIN modes : \A j \in DOMAIN modes : ~ModeLess(modes[i], modes[j])]

\* ReportedBearing with the lower utilization reported
ReportedBearing_lower(res_bear_plate, res_bear_beam) ==
    IF FLt(res_bear_plate.utilization, res_bear_beam.utilization)
    THEN res_bear_plate ELSE res_bear_beam

\* the worst case taken for reporting (fin_plate.py:111-114)
ReportedBearing(res_bear_plate, res_bear_beam) ==
    IF FGt(res_bear_plate.utilization, res_bear_beam.utilization)
    THEN res_bear_plate ELSE res_bear_beam

\* the return value, from the critical mode
fin_plate_result(Vf, bolt_shear, bearing, block_shear, crit) ==
    [outcome |-> "ok",
     overall_status |-> PassIfWithin(crit.util),
     critical_mode |-> [mode |-> crit.mode, hundredths |-> FRound(FMul(crit.util, FInt(100)))],
     calc_trace |-> bolt_shear.calc_trace \o bearing.calc_trace \o block_shear.calc_trace,
     load_case |-> [Vf |-> Vf],
     bolt_shear |-> bolt_shear,
     bearing |-> bearing,
     block_shear |-> block_shear]

\* section 3: aggregate results
fin_plate_aggregate(Vf, bolt_shear, bearing, block_shear) ==
    fin_plate_result(Vf, bolt_shear, bearing, block_shear,
        MaxMode(<<[util |-> bolt_shear.utilization, mode |-> "Bolt Shear"],
                  [util |-> bearing.utilization, mode |-> "Bearing"],
                  [util |-> block_shear.utilization, mode |-> "Block Shear"]>>))

\* section C: the areas of the block, and its check on the beam web
fin_plate_block_shear(self, Vf, n_rows, bolt_shear, bearing, L_gv, t_web, h_dia) ==
    fin_plate_aggregate(Vf, bolt_shear, bearing,
        check_block_shear(
            QArea(L_gv, t_web),
            QArea(QSub(L_gv, QScale(FSub(FInt(n_rows), FRat(5, 10)), h_dia)), t_web),
            QArea(QSub(Get(self.bolt_pattern, "edge_h", Q(FInt(35), "mm")),
                       QScale(FRat(5, 10), h_dia)),
                  t_web),
            self.beam_material, Vf, FOne))

\* section B: bearing of the plate and of the beam web, per bolt
fin_plate_bearing(self, Vf, n_rows, n_bolts, d_b, e_dist, bolt_shear) ==
    IF bolt_shear.outcome = "raised" THEN bolt_shear
    ELSE fin_plate_block_shear(self, Vf, n_rows, bolt_shear,
             ReportedBearing(
                 check_bearing(d_b, self.plate_thickness, e_dist, self.plate_material,
                               QDiv(Vf, FInt(n_bolts)), "Fin Plate"),
                 check_bearing(d_b, Q(SectionAttr(self.beam, "tw"), "mm"), e_dist,
                               self.beam_material, QDiv(Vf, FInt(n_bolts)), "Beam Web")),
             QAdd(QScale(FInt(n_rows - 1), self.bolt_pattern.spacing), e_dist),
             Q(SectionAttr(self.beam, "tw"), "mm"),
             QAdd(d_b, Q(FInt(2), "mm")))

\* sections 1 and A: the bolt group and its shear check
fin_plate_bolt_shear(self, Vf, n_rows, n_bolts) ==
    fin_plate_bearing(self, Vf, n_rows, n_bolts, self.bolt_spec.diameter,
        Get(self.bolt_pattern, "edge_v", Q(FInt(35), "mm")),
        check_bolt_shear(n_bolts, self.bolt_spec.diameter, self.bolt_spec.grade, Vf))

analyze_csa_s16(self, Vf) ==
    fin_plate_bolt_shear(self, Vf, self.bolt_pattern.rows,
        self.bolt_pattern.rows * Get(self.bolt_pattern, "cols", 1))

\* FinPlateConnection.analyze(factored_shear, code)
analyze(self, factored_shear, code) ==
    IF code = "csa_s16" THEN analyze_csa_s16(self, factored_shear)
    ELSE Raised("NotImplementedError")

(***************************************************************************)
(* Inputs of the compression evaluations                                   *)
(***************************************************************************)
\* how far around a regime, zone or capacity boundary the inputs are drawn
TieSpan == 2

\* the floats within TieSpan units in the last place of b
Around(b) == {FUlp(b, d) : d \in (0 - TieSpan)..TieSpan}

ColumnSections == DOMAIN SHAPE_DB

ColumnMaterials == {"A36", "A992"}

BCLists ==
    {<<"pinned", "pinned">>, <<"fixed", "pinned">>, <<"pinned", "fixed">>,
     <<"fixed", "fixed">>, <<"rolled", "fixed">>, <<"fixed", "free">>,
     <<"rolled", "pinned">>, <<"Fixed", " Pinned ">>, <<" Pinned ", "Fixed">>,
     <<"free", "fixed">>, <<"spring", "pinned">>, <<"free", "free">>}

DefaultBC == <<"pinned", "pinned">>

\* the length (mm) at which K L / r_min meets 4.71 sqrt(E / Fy)
BoundaryLength(sec, mat, bc) ==
    FDiv(FMul(FMul(FRat(471, 100),
                   FSqrt(FDiv(ToMag(get_material(mat).elastic_modulus, "MPa"),
                              ToMag(get_material(mat).yield_strength, "MPa")))),
              FMin(SectionAttr(sec, "rx"), SectionAttr(sec, "ry"))),
         get_k_factor(bc).k)

ColumnLengths(sec, mat, bc) ==
    {Q(FInt(0), "mm"), Q(FInt(3), "m"), Q(FInt(6000), "mm"), Q(FInt(40), "ft")}
    \cup {Q(l, "mm") : l \in Around(BoundaryLength(sec, mat, bc))}
    \cup {Q(l, "mm") : l \in Around(FDiv(FMul(FInt(200),
                                   FMin(SectionAttr(sec, "rx"), SectionAttr(sec, "ry"))),
                              get_k_factor(bc).k))}

(***************************************************************************)
(* Actions: one call of an engine function by the caller.  Secs, Mats and  *)
(* BCs are the sets the caller draws the arguments from.                   *)
(***************************************************************************)
Init ==
    /\ heap = [legacy_default |-> DefaultBC, csa_default |-> DefaultBC]
    /\ call = [fn |-> "none"]
    /\ result = [outcome |-> "none"]

Idle == call.fn = "none"

\* calculate_compressive_strength(section, material, length, bc)
CallCompressiveStrength(Secs, Mats, BCs) ==
    /\ Idle
    /\ \E sec \in Secs, mat \in Mats, bc \in BCs :
         \E length \in ColumnLengths(sec, mat, bc) :
           /\ call' = [fn |-> "calculate_compressive_strength", section |-> sec,
                       material |-> mat, length |-> length, bcRef |-> "caller_list",
                       bc |-> bc]
           /\ result' = calculate_compressive_strength(sec, get_material(mat), length,
                                                       bc, "caller_list")
    /\ UNCHANGED heap

\* calculate_compressive_strength(section, material, length)
CallCompressiveStrengthDefault(Secs, Mats) ==
    /\ Idle
    /\ \E sec \in Secs, mat \in Mats :
         \E length \in ColumnLengths(sec, mat, DefaultBC) :
           /\ call' = [fn |-> "calculate_compressive_strength", section |-> sec,
                       material |-> mat, length |-> length, bcRef |-> "legacy_default",
                       bc |-> <<>>]
           /\ result' = calculate_compressive_strength(sec, get_material(mat), length,
                                                       heap.legacy_default, "legacy_default")
    /\ UNCHANGED heap

\* check_compressive_resistance(section, material, length, bc)
CallCompressiveResistance(Secs, Mats, BCs) ==
    /\ Idle
    /\ \E sec \in Secs, mat \in Mats, bc \in BCs :
         \E length \in ColumnLengths(sec, mat, bc) :
           /\ call' = [fn |-> "check_compressive_resistance", section |-> sec,
                       material |-> mat, length |-> length, bcRef |-> "caller_list",
                       bc |-> bc]
           /\ result' = check_compressive_resistance(sec, get_material(mat), length,
                                                     bc, "caller_list")
    /\ UNCHANGED heap

\* check_compressive_resistance(section, material, length)
CallCompressiveResistanceDefault(Secs, Mats) ==
    /\ Idle
    /\ \E sec \in Secs, mat \in Mats :
         \E length \in ColumnLengths(sec, mat, DefaultBC) :
           /\ call' = [fn |-> "check_compressive_resistance", section |-> sec,
                       material |-> mat, length |-> length, bcRef |-> "csa_default",
                       bc |-> <<>>]
           /\ result' = check_compressive_resistance(sec, get_material(mat), length,
                                                     heap.csa_default, "csa_default")
    /\ UNCHANGED heap

\* the caller drops the result of its last call
DropResult ==
    /\ ~Idle
    /\ call' = [fn |-> "none"]
    /\ result' = [outcome |-> "none"]
    /\ UNCHANGED heap

NextColumn ==
    \/ CallCompressiveStrength(ColumnSections, ColumnMaterials, BCLists)
    \/ CallCompressiveStrengthDefault(ColumnSections, ColumnMaterials)
    \/ CallCompressiveResistance(ColumnSections, ColumnMaterials, BCLists)
    \/ CallCompressiveResistanceDefault(ColumnSections, ColumnMaterials)
    \/ DropResult

SpecColumn == Init /\ [][NextColumn]_vars

IsCompression == call.fn \in {"calculate_compressive_strength", "check_compressive_resistance"}

CompressionOk == IsCompression /\ result.outcome = "ok"

(***************************************************************************)
(* Inputs and calls of the flexure evaluations                             *)
(***************************************************************************)
BeamSections == {"W18X50", "W4X13", "C8X18_75", "WT6X25", "HSS6X6X1_4", "PG600", "PG450"}

BeamMaterials == {"A36", "A992"}

Axes == {"strong", "weak", "Y"}

\* cb is a float the functions take as given: the default, a value above
\* it and a value below it
CbValues == {FOne, FRat(114, 100), FRat(8, 10)}

\* Lp and Lr (m) of a section and material
LpOf(sec, mat) ==
    CompactLimitLength(ToMag(get_material(mat).elastic_modulus, "MPa"),
                       ToMag(get_material(mat).yield_strength, "MPa"),
                       SectionAttr(sec, "ry"))

LrStress(mat) ==
    TermStress(ToMag(get_material(mat).elastic_modulus, "MPa"),
               ToMag(get_material(mat).yield_strength, "MPa"))

LrOf(sec, mat) ==
    ElasticLimitLength(SectionAttr(sec, "rts"), LrStress(mat),
        OuterRoot(TermGeom(SectionAttr(sec, "J"), SectionAttr(sec, "Sx"),
                           SectionAttr(sec, "ho")),
                  LrStress(mat)))

BeamLengths(sec, mat) ==
    {Q(FInt(0), "m"), Q(FInt(2), "m"), Q(FInt(20), "ft"), Q(FInt(12000), "mm"),
     Q(FInt(10), "ft"), Q(FRat(117, 10), "ft")}
    \cup (IF SHAPE_DB[sec].type \in SupportedTypes
             /\ Readable(sec, {"Sx", "ry", "rts", "J", "ho"})
          THEN {Q(l, "m") : l \in Around(LpOf(sec, mat)) \cup Around(LrOf(sec, mat))}
          ELSE {})

\* check_flexural_resistance(section, material, unbraced_length, axis, cb)
CallFlexuralResistance(Secs, Mats) ==
    /\ Idle
    /\ \E sec \in Secs, mat \in Mats, axis \in Axes, cb \in CbValues :
         \E length \in BeamLengths(sec, mat) :
           /\ call' = [fn |-> "check_flexural_resistance", section |-> sec,
                       material |-> mat, length |-> length, axis |-> axis, cb |-> cb]
           /\ result' = check_flexural_resistance(sec, get_material(mat), length, axis, cb)
    /\ UNCHANGED heap

\* calculate_bending_capacity(section, material, unbraced_length, axis, cb)
CallBendingCapacity(Secs, Mats) ==
    /\ Idle
    /\ \E sec \in Secs, mat \in Mats, axis \in Axes, cb \in CbValues :
         \E length \in BeamLengths(sec, mat) :
           /\ call' = [fn |-> "calculate_bending_capacity", section |-> sec,
                       material |-> mat, length |-> length, axis |-> axis, cb |-> cb]
           /\ result' = calculate_bending_capacity(sec, get_material(mat), length, axis, cb)
    /\ UNCHANGED heap

NextBeam ==
    \/ CallFlexuralResistance(BeamSections, BeamMaterials)
    \/ CallBendingCapacity(BeamSections, BeamMaterials)
    \/ DropResult

SpecBeam == Init /\ [][NextBeam]_vars

IsFlexure == call.fn \in {"check_flexural_resistance", "calculate_bending_capacity"}

FlexureOk == IsFlexure /\ result.outcome = "ok"

WeakAxisCall == IsFlexure /\ StrLower(call.axis) \in {"weak", "y"}

(***************************************************************************)
(* Inputs and calls of the connection checks                               *)
(***************************************************************************)
Diameters == {Q(FInt(16), "mm"), Q(FInt(20), "mm")}

\* grades with and without the ASTM prefix, a bare property class, a grade
\* that names two entries, one in lower case, the empty string, and a grade
\* the table does not know
BoltGrades ==
    {"ASTM A325", "A490", "Grade 8.8", "8.8", "10.9", "ASTM F3125 A490", "a325", "", "B7"}

BoltCounts == {0, 1, 4}

PlateMaterials == {"A36", "A992"}

\* the demands (kN) tried against a capacity cap: none, the 150 kN of the
\* worked scenario, a heavy one, and those around the capacity
Demands(cap) ==
    {Q(FInt(0), "kN"), Q(FInt(150), "kN"), Q(FInt(600), "kN")}
    \cup {Q(v, "kN") : v \in {w \in Around(cap) : w.m >= 0}}

BoltGroupResistance(n, d, g) ==
    IF n = 0 THEN FInt(100)
    ELSE check_bolt_shear(n, d, g, Q(FZero, "kN")).total_resistance.mag

\* check_bolt_shear(n_bolts, bolt_diameter, bolt_grade, factored_shear)
CallBoltShear ==
    /\ Idle
    /\ \E n \in BoltCounts, d \in Diameters, g \in BoltGrades :
         \E Vf \in Demands(BoltGroupResistance(n, d, g)) :
           /\ call' = [fn |-> "check_bolt_shear", n_bolts |-> n, bolt_diameter |-> d,
                       bolt_grade |-> g, factored_shear |-> Vf]
           /\ result' = check_bolt_shear(n, d, g, Vf)
    /\ UNCHANGED heap

\* check_bolt_shear_group(num_bolts, create_standard_bolt(size, grade), planes)
CallBoltShearGroup ==
    /\ Idle
    /\ \E n \in BoltCounts, size \in DOMAIN ISO_DATA, grade \in DOMAIN MAT_DB,
          planes \in {1, 2} :
         /\ call' = [fn |-> "check_bolt_shear_group", num_bolts |-> n, size |-> size,
                     grade |-> grade, num_shear_planes |-> planes]
         /\ result' = check_bolt_shear_group(n, create_standard_bolt(size, grade), planes)
    /\ UNCHANGED heap

PlateThicknesses == {Q(FInt(6), "mm"), Q(FInt(10), "mm")}

BearingResistance(d, t, mat) ==
    check_bearing(d, t, Q(FInt(35), "mm"), get_material(mat), Q(FZero, "kN"),
                  "Member").Br.mag

\* check_bearing(bolt_diameter, plate_thickness, end_distance, material, force)
CallBearing ==
    /\ Idle
    /\ \E d \in Diameters, t \in PlateThicknesses, mat \in PlateMaterials :
         \E Vf \in Demands(BearingResistance(d, t, mat)) :
           /\ call' = [fn |-> "check_bearing", bolt_diameter |-> d, plate_thickness |-> t,
                       material |-> mat, factored_force |-> Vf]
           /\ result' = check_bearing(d, t, Q(FInt(35), "mm"), get_material(mat), Vf,
                                      "Member")
    /\ UNCHANGED heap

\* the blocks tried: gross shear, net shear and net tension area
Blocks ==
    {[Agv |-> Q(FInt(0), "mm2"), Anv |-> Q(FInt(0), "mm2"), Ant |-> Q(FInt(0), "mm2")],
     [Agv |-> Q(FInt(1000), "mm2"), Anv |-> Q(FInt(900), "mm2"), Ant |-> Q(FInt(200), "mm2")],
     [Agv |-> Q(FInt(1600), "mm2"), Anv |-> Q(FInt(900), "mm2"), Ant |-> Q(FInt(200), "mm2")],
     [Agv |-> Q(FInt(10), "cm2"), Anv |-> Q(FInt(9), "cm2"), Ant |-> Q(FInt(2), "cm2")]}

UbsValues == {FOne, FRat(5, 10)}

BlockShearResistance(b, mat, Ubs) ==
    check_block_shear(b.Agv, b.Anv, b.Ant, get_material(mat), Q(FZero, "kN"),
                      Ubs).capacity.mag

\* check_block_shear(Agv, Anv, Ant, material, factored_force, Ubs)
CallBlockShear ==
    /\ Idle
    /\ \E b \in Blocks, mat \in PlateMaterials, Ubs \in UbsValues :
         \E Vf \in Demands(BlockShearResistance(b, mat, Ubs)) :
           /\ call' = [fn |-> "check_block_shear", Agv |-> b.Agv, Anv |-> b.Anv,
                       Ant |-> b.Ant, material |-> mat, factored_force |-> Vf,
                       Ubs |-> Ubs]
           /\ result' = check_block_shear(b.Agv, b.Anv, b.Ant, get_material(mat), Vf, Ubs)
    /\ UNCHANGED heap

\* the blocks the helper is called with: the caller chooses the unit
RuptureBlocks == Blocks

\* the ultimate strength of a material as the caller may hand it over: in
\* MPa as the material stores it, or the same stress in ksi
FuGiven(mat) ==
    {get_material(mat).ultimate_strength,
     Q(ToMag(get_material(mat).ultimate_strength, "ksi"), "ksi")}

\* check_block_shear_rupture(Fu, Anv, Ant, Ubs) for a block of the material:
\* the helper is given neither Fy nor Agv
CallBlockShearRupture ==
    /\ Idle
    /\ \E b \in RuptureBlocks, mat \in PlateMaterials, Ubs \in UbsValues :
         \E Fu \in FuGiven(mat) :
           /\ call' = [fn |-> "check_block_shear_rupture", Agv |-> b.Agv, Anv |-> b.Anv,
                       Ant |-> b.Ant, material |-> mat, Fu |-> Fu, Ubs |-> Ubs]
           /\ result' = check_block_shear_rupture(Fu, b.Anv, b.Ant, Ubs)
    /\ UNCHANGED heap

\* the bolt_pattern and bolt_spec dictionaries tried
BoltPatterns ==
    {[rows |-> 3, spacing |-> Q(FInt(75), "mm")],
     [rows |-> 2, cols |-> 2, spacing |-> Q(FInt(75), "mm"), edge_v |-> Q(FInt(40), "mm")],
     [rows |-> 3, spacing |-> Q(FInt(75), "mm"), edge_h |-> Q(FInt(60), "mm")],
     [rows |-> 1, spacing |-> Q(FInt(75), "mm"), edge_h |-> Q(FInt(10), "mm")],
     [rows |-> 0, spacing |-> Q(FInt(75), "mm")]}

BoltSpecs ==
    {[diameter |-> Q(FInt(20), "mm"), grade |-> "ASTM A325"],
     [diameter |-> Q(FInt(20), "mm"), grade |-> "Grade 8.8"]}

FinPlateBeams == {"W18X50", "W4X13"}

\* the connections tried: the plate as thick as a listed plate or as the web
FinPlates ==
    {[beam |-> beam, plate_thickness |-> t, plate_material |-> get_material(pm),
      beam_material |-> get_material("A992"), bolt_pattern |-> bp, bolt_spec |-> bs] :
       beam \in FinPlateBeams, t \in PlateThicknesses \cup {Q(FRat(902, 100), "mm")},
       pm \in PlateMaterials, bp \in BoltPatterns, bs \in BoltSpecs}

Codes == {"csa_s16", "aisc_360"}

FinPlateDemands(self) ==
    Demands(BoltGroupResistance(self.bolt_pattern.rows * Get(self.bolt_pattern, "cols", 1),
                                self.bolt_spec.diameter, self.bolt_spec.grade))
    \cup {Q(FInt(300), "kN")}

\* FinPlateConnection(...).analyze(factored_shear, code)
AnalyzeFinPlate ==
    /\ Idle
    /\ \E self \in FinPlates, code \in Codes :
         \E Vf \in FinPlateDemands(self) :
           /\ call' = [fn |-> "analyze", self |-> self, factored_shear |-> Vf,
                       code |-> code]
           /\ result' = analyze(self, Vf, code)
    /\ UNCHANGED heap

NextConn ==
    \/ CallBoltShear
    \/ CallBoltShearGroup
    \/ CallBearing
    \/ CallBlockShear
    \/ CallBlockShearRupture
    \/ AnalyzeFinPlate
    \/ DropResult

SpecConn == Init /\ [][NextConn]_vars

(***************************************************************************)
(* The caller changes what a call returned, and calls again.  The          *)
(* boundary_conditions entry of a compression result is the list object    *)
(* that was bound to upper_lower_boundary_conditions: the caller's own     *)
(* list, or the default object of the function.                            *)
(***************************************************************************)
SharedSections == {"W18X50"}

SharedMaterials == {"A992"}

SharedBCs == {<<"fixed", "fixed">>}

MutationStrings == {"fixed"}

\* result["boundary_conditions"][i] = s
MutateBoundaryConditions ==
    /\ CompressionOk
    /\ \E i \in 1..2, s \in MutationStrings :
         IF result.boundary_conditions = "caller_list"
         THEN /\ call' = [call EXCEPT !.bc[i] = s]
              /\ UNCHANGED heap
         ELSE /\ heap' = [heap EXCEPT ![result.boundary_conditions][i] = s]
              /\ UNCHANGED call
    /\ UNCHANGED result

\* result["calc_trace"].clear()
MutateTrace ==
    /\ ~Idle
    /\ result.outcome = "ok"
    /\ "calc_trace" \in DOMAIN result
    /\ result.calc_trace # <<>>
    /\ result' = [result EXCEPT !.calc_trace = <<>>]
    /\ UNCHANGED <<heap, call>>

NextShared ==
    \/ CallCompressiveStrength(SharedSections, SharedMaterials, SharedBCs)
    \/ CallCompressiveStrengthDefault(SharedSections, SharedMaterials)
    \/ CallCompressiveResistance(SharedSections, SharedMaterials, SharedBCs)
    \/ CallCompressiveResistanceDefault(SharedSections, SharedMaterials)
    \/ CallFlexuralResistance(SharedSections, SharedMaterials)
    \/ CallBendingCapacity(SharedSections, SharedMaterials)
    \/ MutateBoundaryConditions
    \/ MutateTrace
    \/ DropResult

SpecShared == Init /\ [][NextShared]_vars

(***************************************************************************)
(* Claims on the compression evaluations (SpecColumn)                      *)
(***************************************************************************)
CallE == ToMag(get_material(call.material).elastic_modulus, "MPa")

CallFy == ToMag(get_material(call.material).yield_strength, "MPa")

\* K L / r about one axis, from the arguments of the call and the returned K
CallKLr(axis) ==
    FDiv(FMul(result.k_factor, ToMag(call.length, "mm")), SectionAttr(call.section, axis))

\* C2: failure_mode is 'Inelastic Buckling' exactly when the governing KL/r
\* is <= 4.71 sqrt(E/Fy) (the boundary included) and 'Elastic Buckling'
\* otherwise, and Fcr is the value of the formula of the reported regime:
\* 0.658^(Fy/Fe) Fy (Eq. E3-2) when inelastic, 0.877 Fe (Eq. E3-3) when elastic.
Thm_C2_RegimeAndFcr ==
    CompressionOk =>
      LET limit == FMul(FRat(471, 100), FSqrt(FDiv(CallE, CallFy)))
          Fe == FDiv(FMul(FSquare(FPi), CallE), FSquare(result.slenderness))
          eq == result.calc_trace[Len(result.calc_trace) - 2].ref
      IN  /\ result.failure_mode \in {"Inelastic Buckling", "Elastic Buckling"}
          /\ (result.failure_mode = "Inelastic Buckling") <=> FLe(result.slenderness, limit)
          /\ result.failure_mode = "Inelastic Buckling" =>
               /\ result.Fcr.mag = FMul(FPow658(FDiv(CallFy, Fe)), CallFy)
               /\ eq = "AISC Eq. E3-2"
          /\ result.failure_mode = "Elastic Buckling" =>
               /\ result.Fcr.mag = FMul(FRat(877, 1000), Fe)
               /\ eq = "AISC Eq. E3-3"

\* a column whose KL/r equals the limit exactly has been classified inelastic
Wit_C2_Tie ==
    /\ CompressionOk
    /\ result.slenderness = FMul(FRat(471, 100), FSqrt(FDiv(CallE, CallFy)))
    /\ result.failure_mode = "Inelastic Buckling"

\* C4: the returned slenderness is max(K L / rx, K L / ry); governing_axis is
\* X-X exactly when K L / rx > K L / ry, and the slenderness is K L / r of
\* the reported axis.
Thm_C4_GoverningAxis ==
    CompressionOk =>
      /\ FGe(result.slenderness, CallKLr("rx"))
      /\ FGe(result.slenderness, CallKLr("ry"))
      /\ result.slenderness \in {CallKLr("rx"), CallKLr("ry")}
      /\ (result.governing_axis = "X-X") <=> FGt(CallKLr("rx"), CallKLr("ry"))
      /\ result.governing_axis \in {"X-X", "Y-Y"}
      /\ result.slenderness =
           CallKLr(IF result.governing_axis = "X-X" THEN "rx" ELSE "ry")

\* a column that buckles about X-X (rx < ry) has been evaluated
Wit_C4_XGoverns ==
    /\ CompressionOk
    /\ result.governing_axis = "X-X"
    /\ FLt(SectionAttr(call.section, "rx"), SectionAttr(call.section, "ry"))
    /\ result.slenderness = CallKLr("rx")

(***************************************************************************)
(* Claims on the flexure evaluations (SpecBeam)                            *)
(***************************************************************************)
CallLb == ToMag(call.length, "m")

CallMp == PlasticMoment(CallFy, SectionAttr(call.section, "Zx"))

CallTermGeom ==
    TermGeom(SectionAttr(call.section, "J"), SectionAttr(call.section, "Sx"),
             SectionAttr(call.section, "ho"))

\* C1: a strong-axis flexure evaluation reports exactly one zone: Zone 1 iff
\* Lb <= Lp, Zone 2 iff Lp < Lb <= Lr, Zone 3 iff Lb > Lr (ties belong to the
\* lower zone), and Mn is the value of the formula of the reported zone.
Thm_C1_ZoneAndMn ==
    (FlexureOk /\ ~WeakAxisCall) =>
      /\ result.ltb_zone \in {"Compact Zone (Zone 1)", "Inelastic LTB (Zone 2)",
                              "Elastic LTB (Zone 3)"}
      /\ (result.ltb_zone = "Compact Zone (Zone 1)") <=> FLe(CallLb, result.Lp.mag)
      /\ (result.ltb_zone = "Inelastic LTB (Zone 2)") <=>
           (FLt(result.Lp.mag, CallLb) /\ FLe(CallLb, result.Lr.mag))
      /\ (result.ltb_zone = "Elastic LTB (Zone 3)") <=> FGt(CallLb, result.Lr.mag)
      /\ result.Lp.mag = LpOf(call.section, call.material)
      /\ result.Lr.mag = LrOf(call.section, call.material)
      /\ result.ltb_zone = "Compact Zone (Zone 1)" => result.Mn.mag = CallMp
      /\ result.ltb_zone = "Inelastic LTB (Zone 2)" =>
           result.Mn.mag = InelasticLtbMoment(call.cb, CallFy, SectionAttr(call.section, "Sx"),
                                              CallLb, result.Lp.mag, result.Lr.mag, CallMp)
      /\ result.ltb_zone = "Elastic LTB (Zone 3)" =>
           result.Mn.mag = ElasticLtbMoment(call.cb, CallE, SectionAttr(call.section, "Sx"),
                                            SectionAttr(call.section, "rts"), CallLb, CallMp,
                                            CallTermGeom)

\* a beam whose Lb equals Lr exactly has been put in Zone 2, by either function
Wit_C1_TieAtLr ==
    /\ FlexureOk
    /\ ~WeakAxisCall
    /\ CallLb = result.Lr.mag
    /\ result.ltb_zone = "Inelastic LTB (Zone 2)"

\* C10: a flexure evaluation called with the weak axis ('weak' or 'y', any
\* letter case) returns Mn = min(Fy Zy, 1.6 Fy Sy) and Mu = 0.9 Mn, and does
\* no LTB classification, whatever the unbraced length and Cb.
Cex_C10_WeakAxis ==
    (FlexureOk /\ WeakAxisCall) =>
      /\ result.Mn.mag =
           FMin(FMul(FMul(CallFy, SectionAttr(call.section, "Zy")), FRat(1, 1000000)),
                FMul(FMul(FMul(FRat(16, 10), CallFy), SectionAttr(call.section, "Sy")),
                     FRat(1, 1000000)))
      /\ result.Mu_capacity.mag = FMul(FRat(9, 10), result.Mn.mag)
      /\ result.ltb_zone = "Weak Axis"

(***************************************************************************)
(* Claim on the state shared across calls (SpecShared)                     *)
(***************************************************************************)
\* a result without the trace, which the caller may have emptied
Untraced(r) == IF r.outcome = "ok" THEN [r EXCEPT !.calc_trace = <<>>] ELSE r

\* what the call would return were it the first call of the program
Isolated ==
    CASE call.fn = "calculate_compressive_strength" ->
           calculate_compressive_strength(call.section, get_material(call.material),
               call.length, DefaultBC, call.bcRef)
      [] call.fn = "check_compressive_resistance" ->
           check_compressive_resistance(call.section, get_material(call.material),
               call.length, DefaultBC, call.bcRef)
      [] call.fn = "check_flexural_resistance" ->
           check_flexural_resistance(call.section, get_material(call.material),
               call.length, call.axis, call.cb)
      [] call.fn = "calculate_bending_capacity" ->
           calculate_bending_capacity(call.section, get_material(call.material),
               call.length, call.axis, call.cb)

\* C5: evaluations share no mutable state across calls: whatever
\* evaluations and caller-side changes of returned results came before, a
\* flexure evaluation, and a compression evaluation that relies on the
\* default end conditions, returns what it would return in isolation.
Cex_C5_Isolation ==
    (IsFlexure \/ (IsCompression /\ call.bcRef # "caller_list")) =>
      Untraced(result) = Untraced(Isolated)

(***************************************************************************)
(* Claims on the connection checks (SpecConn)                              *)
(***************************************************************************)
AnalyzeOk == call.fn = "analyze" /\ result.outcome = "ok"

ModeNames == {"Bolt Shear", "Bearing", "Block Shear"}

\* the utilization of the check a mode name stands for
ModeUtil(mode) ==
    CASE mode = "Bolt Shear" -> result.bolt_shear.utilization
      [] mode = "Bearing" -> result.bearing.utilization
      [] mode = "Block Shear" -> result.block_shear.utilization

\* C3: the critical mode of a fin-plate analysis is a check whose
\* utilization is the maximum of the three (bolt shear, reported bearing,
\* block shear), and overall_status is PASS exactly when that maximum is
\* <= 1.0.
Thm_C3_CriticalMode ==
    AnalyzeOk =>
      /\ result.critical_mode.mode \in ModeNames
      /\ \A m \in ModeNames : FGe(ModeUtil(result.critical_mode.mode), ModeUtil(m))
      /\ result.critical_mode.hundredths =
           FRound(FMul(ModeUtil(result.critical_mode.mode), FInt(100)))
      /\ result.overall_status \in {"PASS", "FAIL"}
      /\ (result.overall_status = "PASS") <=> \A m \in ModeNames : FLe(ModeUtil(m), FOne)

\* the second check governs, above the two others, and the connection passes
Wit_C3_BearingGoverns ==
    /\ AnalyzeOk
    /\ result.critical_mode.mode = "Bearing"
    /\ FLt(result.bolt_shear.utilization, result.bearing.utilization)
    /\ FLt(result.block_shear.utilization, result.bearing.utilization)
    /\ result.overall_status = "PASS"

\* the demand and the capacity of a per-limit-state check, in kN
CheckDemand ==
    ToMag(IF call.fn = "check_bolt_shear" THEN call.factored_shear ELSE call.factored_force,
          "kN")

CheckCapacity ==
    IF call.fn = "check_block_shear" THEN result.capacity.mag
    ELSE result.total_resistance.mag

ConnCheckOk ==
    /\ call.fn \in {"check_bolt_shear", "check_bearing", "check_block_shear"}
    /\ result.outcome = "ok"

\* C6: every per-limit-state result (bolt shear, bearing, block shear) has
\* utilization = demand / capacity and status PASS exactly when
\* utilization <= 1.0.
Cex_C6_UtilizationAndStatus ==
    ConnCheckOk =>
      /\ CheckCapacity.m # 0 => result.utilization = FDiv(CheckDemand, CheckCapacity)
      /\ (result.status = "PASS") <=> FLe(result.utilization, FOne)

FAbs(a) == [m |-> Abs(a.m), e |-> a.e]

\* a and b differ by no more than a thousandth of b
Near(a, b) == FLe(FAbs(FSub(a, b)), FMul(FRat(1, 1000), FAbs(b)))

\* the two terms of Rn for the block of the call, from its areas in mm^2
CallRupture ==
    FAdd(FMul(FMul(FRat(6, 10), ToMag(get_material(call.material).ultimate_strength, "MPa")),
              ToMag(call.Anv, "mm2")),
         FMul(FMul(call.Ubs, ToMag(get_material(call.material).ultimate_strength, "MPa")),
              ToMag(call.Ant, "mm2")))

CallYield ==
    FAdd(FMul(FMul(FRat(6, 10), ToMag(get_material(call.material).yield_strength, "MPa")),
              ToMag(call.Agv, "mm2")),
         FMul(FMul(call.Ubs, ToMag(get_material(call.material).ultimate_strength, "MPa")),
              ToMag(call.Ant, "mm2")))

\* C7: every block-shear check (check_block_shear and the helper
\* check_block_shear_rupture) returns Vr = 0.75 Rn with
\* Rn = min(0.6 Fu Anv + Ubs Fu Ant, 0.6 Fy Agv + Ubs Fu Ant), in kN.
Cex_C7_BlockShearCapacity ==
    (call.fn \in {"check_block_shear", "check_block_shear_rupture"} /\ result.outcome = "ok") =>
      Near(result.capacity.mag,
           FMul(FMul(FRat(75, 100), FMin(CallRupture, CallYield)), FRat(1, 1000)))

\* the per-bolt resistance 0.60 phi_b Ab Fu m (kN) of the call, phi_b = 0.80
CallBoltResistance(Fu, m) ==
    FMul(FMul(FMul(FMul(FMul(FRat(60, 100), FRat(80, 100)),
                        FDiv(FMul(FPi, FSquare(ToMag(call.bolt_diameter, "mm"))), FInt(4))),
                   FInt(Fu)),
              FInt(m)),
         FRat(1, 1000))

\* C8: the bolt-shear check returns Vr = 0.60 phi_b Ab Fu_bolt m per bolt
\* (phi_b = 0.80, m = 1 shear plane), the total n Vr and the utilization
\* demand / total, and PASS exactly when the demand is <= the total; the
\* group helper returns n 0.6 phi Ab Fub m for m shear planes.  Grade 8.8
\* bolts have Fu = 800 MPa.
Thm_C8_BoltShear ==
    /\ (call.fn = "check_bolt_shear" /\ result.outcome = "ok") =>
         /\ result.Vr.mag = CallBoltResistance(BoltStrength(CleanGrade(call.bolt_grade)), 1)
         /\ call.bolt_grade = "Grade 8.8" => result.Vr.mag = CallBoltResistance(800, 1)
         /\ result.total_resistance.mag = FMul(result.Vr.mag, FInt(call.n_bolts))
         /\ result.utilization =
              FDiv(ToMag(call.factored_shear, "kN"), result.total_resistance.mag)
         /\ result.status \in {"PASS", "FAIL"}
         /\ (result.status = "PASS") <=>
              FLe(ToMag(call.factored_shear, "kN"), result.total_resistance.mag)
    /\ (call.fn = "check_bolt_shear_group" /\ result.outcome = "ok") =>
         result.capacity.mag =
           FMul(FMul(FMul(FMul(FMul(FMul(FRat(6, 10), FRat(80, 100)),
                                    FInt(ISO_DATA[call.size])),
                               FInt(MAT_DB[call.grade])),
                          FInt(call.num_shear_planes)),
                     FRat(1, 1000)),
                FInt(call.num_bolts))

\* four M20 Grade 8.8 bolts in single shear under 150 kN have been checked,
\* and pass
Wit_C8_FourM20 ==
    /\ call.fn = "check_bolt_shear"
    /\ result.outcome = "ok"
    /\ call.n_bolts = 4
    /\ call.bolt_diameter = Q(FInt(20), "mm")
    /\ call.bolt_grade = "Grade 8.8"
    /\ call.factored_shear = Q(FInt(150), "kN")
    /\ result.status = "PASS"

\* the bearing check of one layer of the analysed connection
LayerBearing(thickness, material, member_name) ==
    check_bearing(call.self.bolt_spec.diameter, thickness,
        Get(call.self.bolt_pattern, "edge_v", Q(FInt(35), "mm")), material,
        QDiv(call.factored_shear,
             FInt(call.self.bolt_pattern.rows * Get(call.self.bolt_pattern, "cols", 1))),
        member_name)

PlateBearing ==
    LayerBearing(call.self.plate_thickness, call.self.plate_material, "Fin Plate")

WebBearing ==
    LayerBearing(Q(SectionAttr(call.self.beam, "tw"), "mm"), call.self.beam_material,
                 "Beam Web")

\* Br = 3 * 0.80 * t * d * Fu, in kN
LayerBr(thickness, material) ==
    FMul(FMul(FMul(FMul(FMul(FInt(3), FRat(80, 100)), ToMag(thickness, "mm")),
                   ToMag(call.self.bolt_spec.diameter, "mm")),
              ToMag(material.ultimate_strength, "MPa")),
         FRat(1, 1000))

\* C9: bearing is evaluated for the fin plate (plate material) and for the
\* beam web (beam material) with Br = 3 * 0.80 * t * d * Fu, and the bearing
\* result the connection reports is that of the layer of the higher
\* utilization: its utilization is the maximum of the two.
Thm_C9_GoverningBearing ==
    AnalyzeOk =>
      /\ PlateBearing.Br.mag = LayerBr(call.self.plate_thickness, call.self.plate_material)
      /\ WebBearing.Br.mag =
           LayerBr(Q(SectionAttr(call.self.beam, "tw"), "mm"), call.self.beam_material)
      /\ result.bearing \in {PlateBearing, WebBearing}
      /\ FGe(result.bearing.utilization, PlateBearing.utilization)
      /\ FGe(result.bearing.utilization, WebBearing.utilization)

\* the fin plate is the layer of the higher utilization, and is reported
Wit_C9_PlateGoverns ==
    /\ AnalyzeOk
    /\ FGt(PlateBearing.utilization, WebBearing.utilization)
    /\ result.bearing = PlateBearing
    /\ result.bearing.calc_trace[1].desc = "1. Bearing Parameters (Fin Plate)"

(***************************************************************************)
(* Claims on sections without torsional properties and on unsupported      *)
(* shape types (SpecBeam)                                                  *)
(***************************************************************************)
\* C11: when rts, ho or J is unavailable for the section (absent from the
\* record or null), a strong-axis flexure evaluation of a supported shape
\* still returns a capacity result, and never classifies the beam as
\* Zone 3 (elastic LTB).
Cex_C11_MissingTorsional ==
    (/\ IsFlexure
     /\ call.axis = "strong"
     /\ SHAPE_DB[call.section].type \in {"W", "M", "S", "HP", "C", "MC"}
     /\ ~Readable(call.section, {"rts", "ho", "J"})) =>
      /\ result.outcome = "ok"
      /\ result.ltb_zone # "Elastic LTB (Zone 3)"

\* C12: a flexure evaluation of a section whose type is not one of W, M, S,
\* HP, C, MC ends with NotImplementedError on the strong-axis and on the
\* weak-axis path alike, with no trace and no capacity returned; a section
\* of one of these types never ends that way.
Thm_C12_UnsupportedType ==
    IsFlexure =>
      /\ SHAPE_DB[call.section].type \notin {"W", "M", "S", "HP", "C", "MC"} =>
           result = [outcome |-> "raised", exc |-> "NotImplementedError"]
      /\ SHAPE_DB[call.section].type \in {"W", "M", "S", "HP", "C", "MC"} =>
           (result.outcome = "raised" => result.exc # "NotImplementedError")

\* a WT section evaluated about the weak axis has been refused
Wit_C12_WeakAxisRefused ==
    /\ call.fn = "check_flexural_resistance"
    /\ call.axis \in {"weak", "Y"}
    /\ SHAPE_DB[call.section].type = "WT"
    /\ result.outcome = "raised"
    /\ result.exc = "NotImplementedError"

(***************************************************************************)
(* Claims on the effective-length factor and on the trace of the           *)
(* compression evaluations (SpecColumn)                                    *)
(***************************************************************************)
\* C13: K is resolved from the table keyed by the unordered pair of end
\* conditions: 0.65, 0.80, 1.20, 1.00, 2.10, 2.00 for {fixed,fixed},
\* {fixed,pinned}, {fixed,rolled}, {pinned,pinned}, {fixed,free},
\* {pinned,rolled}, whatever the order, the letter case and the surrounding
\* whitespace of the two strings; the result for [b, a] is that for [a, b].
Thm_C13_KFactor ==
    (CompressionOk /\ call.bcRef = "caller_list") =>
      LET Cond(s) == CASE s \in {"fixed", "Fixed"} -> "fixed"
                       [] s \in {"pinned", " Pinned "} -> "pinned"
                       [] OTHER -> s
          pair == {Cond(call.bc[1]), Cond(call.bc[2])}
          table == [S \in {{"fixed"}, {"fixed", "pinned"}, {"fixed", "rolled"}, {"pinned"},
                           {"fixed", "free"}, {"pinned", "rolled"}} |->
                      CASE S = {"fixed"} -> FRat(65, 100)
                        [] S = {"fixed", "pinned"} -> FRat(80, 100)
                        [] S = {"fixed", "rolled"} -> FRat(120, 100)
                        [] S = {"pinned"} -> FRat(100, 100)
                        [] S = {"fixed", "free"} -> FRat(210, 100)
                        [] S = {"pinned", "rolled"} -> FRat(200, 100)]
          swapped == <<call.bc[2], call.bc[1]>>
      IN  /\ pair \in DOMAIN table => result.k_factor = table[pair]
          /\ result.k_factor =
               (IF call.fn = "calculate_compressive_strength"
                THEN get_k_factor(swapped).k ELSE csa_get_k_factor(swapped).k)

\* a column given as [' Pinned ', 'Fixed'] has been evaluated with K = 0.80
Wit_C13_SwappedMixedCase ==
    /\ CompressionOk
    /\ call.bc = <<" Pinned ", "Fixed">>
    /\ result.k_factor = FRat(80, 100)

\* C14: for an end-condition pair that is not one of the six table entries
\* a compression evaluation that proceeds uses K = 1.0, and the warning is
\* written for the caller; it uses no other K and does not stay silent.
Thm_C14_UnknownPair ==
    (CompressionOk /\ call.bcRef = "caller_list") =>
      LET Cond(s) == CASE s \in {"fixed", "Fixed"} -> "fixed"
                       [] s \in {"pinned", " Pinned "} -> "pinned"
                       [] OTHER -> s
          known == {{"fixed"}, {"fixed", "pinned"}, {"fixed", "rolled"}, {"pinned"},
                    {"fixed", "free"}, {"pinned", "rolled"}}
      IN  {Cond(call.bc[1]), Cond(call.bc[2])} \notin known =>
            /\ result.k_factor = FOne
            /\ result.printed = <<"[WARNING] Unknown boundary conditions">>

\* a column with a spring support has been evaluated with K = 1.0 and the
\* warning
Wit_C14_SpringSupport ==
    /\ CompressionOk
    /\ call.bc = <<"spring", "pinned">>
    /\ result.k_factor = FOne
    /\ Len(result.printed) = 1

\* C15: the trace of a compression evaluation holds the entry
\* 'WARNING: Slenderness Limit' exactly when the governing KL/r is > 200
\* (200 itself gives none), right after the slenderness step; the
\* evaluation still returns, and its regime, Fcr, Pn and Pu are the values
\* of the formulas, the same with and without the warning.
Thm_C15_SlendernessWarning ==
    CompressionOk =>
      LET trace == result.calc_trace
          warned == {i \in 1..Len(trace) : trace[i].desc = "WARNING: Slenderness Limit"}
          limit == FMul(FRat(471, 100), FSqrt(FDiv(CallE, CallFy)))
          Fe == FDiv(FMul(FSquare(FPi), CallE), FSquare(result.slenderness))
          Fcr == IF FLe(result.slenderness, limit)
                 THEN FMul(FPow658(FDiv(CallFy, Fe)), CallFy)
                 ELSE FMul(FRat(877, 1000), Fe)
          Pn == FMul(FMul(Fcr, SectionAttr(call.section, "A")), FRat(1, 1000))
      IN  /\ (warned # {}) <=> FGt(result.slenderness, FInt(200))
          /\ warned \subseteq {3}
          /\ trace[2].desc = "2. Slenderness Ratio (KL/r)"
          /\ result.failure_mode =
               (IF FLe(result.slenderness, limit) THEN "Inelastic Buckling"
                ELSE "Elastic Buckling")
          /\ result.Fcr = Q(Fcr, "MPa")
          /\ result.Pn = Q(Pn, "kN")
          /\ result.Pu_capacity = Q(FMul(FRat(9, 10), Pn), "kN")

\* a column of KL/r > 200 has been evaluated: it carries the warning and a
\* capacity
Wit_C15_Warned ==
    /\ CompressionOk
    /\ FGt(result.slenderness, FInt(200))
    /\ result.calc_trace[3].desc = "WARNING: Slenderness Limit"
    /\ FGt(result.Pn.mag, FZero)

\* C16: the calc_trace of a compression evaluation holds, in this order and
\* nothing else: the design variables (with K), the slenderness, the
\* warning when KL/r > 200, Fe, the regime boundary check, the one
\* classification and the one Fcr step of the returned failure_mode, Pn
\* and Pu.
Thm_C16_TraceOrder ==
    CompressionOk =>
      LET trace == result.calc_trace
          inelastic == result.failure_mode = "Inelastic Buckling"
          expected ==
            <<"1. Design Variables", "2. Slenderness Ratio (KL/r)">>
            \o (IF FGt(result.slenderness, FInt(200))
                THEN <<"WARNING: Slenderness Limit">> ELSE <<>>)
            \o <<"3. Elastic Buckling Stress (Fe)", "4. Buckling Regime Classification",
                 IF inelastic THEN "Classification: Inelastic Buckling"
                 ELSE "Classification: Elastic Buckling",
                 "5. Critical Stress Calculation", "6. Nominal Compressive Strength",
                 "7. Design Compressive Strength (LRFD)">>
      IN  /\ [i \in 1..Len(trace) |-> trace[i].desc] = expected
          /\ trace[1].k = result.k_factor
          /\ trace[Len(trace) - 2].ref =
               (IF inelastic THEN "AISC Eq. E3-2" ELSE "AISC Eq. E3-3")

\* an elastic column with the warning has been evaluated: its trace has
\* nine entries
Wit_C16_LongestTrace ==
    /\ CompressionOk
    /\ result.failure_mode = "Elastic Buckling"
    /\ Len(result.calc_trace) = 9
    /\ result.calc_trace[3].desc = "WARNING: Slenderness Limit"
    /\ result.calc_trace[9].desc = "7. Design Compressive Strength (LRFD)"

\* C17: the result of a connection evaluation records everything that was
\* computed: the master calc_trace starts with the bolt shear steps, ends with
\* the block shear steps, holds between them the steps of both bearing layers
\* that were evaluated (the fin plate and the beam web), and the governing
\* mode with its utilization is recorded with the result.
Cex_C17_MasterTrace ==
    AnalyzeOk =>
      LET master == result.calc_trace
          bolt == result.bolt_shear.calc_trace
          block == result.block_shear.calc_trace
          middle == SubSeq(master, Len(bolt) + 1, Len(master) - Len(block))
      IN /\ Len(master) >= Len(bolt) + Len(block)
         /\ SubSeq(master, 1, Len(bolt)) = bolt
         /\ SubSeq(master, Len(master) - Len(block) + 1, Len(master)) = block
         /\ Contains(middle, PlateBearing.calc_trace)
         /\ Contains(middle, WebBearing.calc_trace)
         /\ result.critical_mode.mode \in ModeNames
         /\ result.critical_mode.hundredths =
                FRound(FMul(ModeUtil(result.critical_mode.mode), FInt(100)))

(***************************************************************************)
(* Section lookup: get_section and the property reads of SectionProperties *)
(* in components/aisc_members.py and in standards/sections.py.  A callout  *)
(* is a sequence of characters.  The name fields of a record are held in   *)
(* NAME_IMPERIAL and NAME_METRIC, keyed like SHAPE_DB; the key of a record *)
(* in the JSON file is its name_imperial (dev_tools/ingest_aisc.py).       *)
(***************************************************************************)
\* name_imperial of each record: str(label).strip().upper()
NAME_IMPERIAL ==
    [W18X50 |-> <<"W", "1", "8", "X", "5", "0">>,
     W4X13 |-> <<"W", "4", "X", "1", "3">>,
     C8X18_75 |-> <<"C", "8", "X", "1", "8", ".", "7", "5">>,
     WT6X25 |-> <<"W", "T", "6", "X", "2", "5">>,
     HSS6X6X1_4 |-> <<"H", "S", "S", "6", "X", "6", "X", "1", "/", "4">>,
     PG600 |-> <<"P", "G", "6", "0", "0">>,
     PG450 |-> <<"P", "G", "4", "5", "0">>]

\* name_metric of each record, "" where the table gives none
NAME_METRIC ==
    [W18X50 |-> <<"W", "4", "6", "0", "X", "7", "4">>,
     W4X13 |-> <<"W", "1", "0", "0", "X", "1", "9", ".", "3">>,
     C8X18_75 |-> <<"C", "2", "0", "0", "X", "2", "7", ".", "9">>,
     WT6X25 |-> <<"W", "T", "1", "5", "5", "X", "3", "7">>,
     HSS6X6X1_4 |-> <<"H", "S", "S", "1", "5", "2", ".", "4", "X", "1", "5", "2", ".", "4", "X", "6", ".", "4">>,
     PG600 |-> <<>>,
     PG450 |-> <<>>]

LowerLetters == <<"a", "b", "c", "d", "e", "f", "g", "h", "i", "j", "k", "l", "m", "n", "o", "p", "q", "r", "s", "t", "u", "v", "w", "x", "y", "z">>

UpperLetters == <<"A", "B", "C", "D", "E", "F", "G", "H", "I", "J", "K", "L", "M", "N", "O", "P", "Q", "R", "S", "T", "U", "V", "W", "X", "Y", "Z">>

\* str.upper() of one character
CharUpper(c) ==
    IF \E i \in DOMAIN LowerLetters : LowerLetters[i] = c
    THEN UpperLetters[CHOOSE i \in DOMAIN LowerLetters : LowerLetters[i] = c]
    ELSE c

\* Upper that leaves the letters as given
Upper_asgiven(s) == s

\* str.upper()
Upper(s) == IF s = <<>> THEN <<>> ELSE [i \in DOMAIN s |-> CharUpper(s[i])]

\* str.replace(old, new) for single characters
Replace(s, old, new) ==
    IF s = <<>> THEN <<>> ELSE [i \in DOMAIN s |-> IF s[i] = old THEN new ELSE s[i]]

\* key in _SHAPE_DB
InShapeDb(key) == \E k \in SectionNames : NAME_IMPERIAL[k] = key

\* _SHAPE_DB[key], as the key of the record in SHAPE_DB
ShapeOf(key) == CHOOSE k \in SectionNames : NAME_IMPERIAL[k] = key

\* _METRIC_MAP: from each non-empty name_metric to the key of its record
\* (the metric names of the model are distinct)
METRIC_MAP ==
    [n \in {NAME_METRIC[k] : k \in SectionNames} \ {<<>>} |->
        ShapeOf(NAME_IMPERIAL[CHOOSE k \in SectionNames : NAME_METRIC[k] = n])]

\* SectionProperties(record) returned to the caller
Found(k) == [outcome |-> "ok", section |-> k]

\* the lookups of get_section on the normalised key
get_section_lookup(key) ==
    IF InShapeDb(key) THEN Found(ShapeOf(key))
    ELSE IF key \in DOMAIN METRIC_MAP THEN Found(METRIC_MAP[key])
    ELSE IF InShapeDb(Replace(key, "x", "X")) THEN Found(ShapeOf(Replace(key, "x", "X")))
    ELSE Raised("ValueError")

\* get_section of components/aisc_members.py
get_section(callout) == get_section_lookup(Upper(Strip(callout)))

\* the same of standards/sections.py
std_get_section_lookup(key) ==
    IF InShapeDb(key) THEN Found(ShapeOf(key))
    ELSE IF key \in DOMAIN METRIC_MAP THEN Found(METRIC_MAP[key])
    ELSE IF InShapeDb(Replace(key, "x", "X")) THEN Found(ShapeOf(Replace(key, "x", "X")))
    ELSE Raised("ValueError")

std_get_section(callout) == std_get_section_lookup(Upper(Strip(callout)))

\* what a property read leaves with the caller: the value, or the exception
Returned(v) == IF v = Raised("AttributeError") THEN v ELSE [outcome |-> "ok", value |-> v]

\* the property names read: those the records hold, and names of each
\* group that some or all records lack
PropNames ==
    ((UNION {DOMAIN SHAPE_DB[k] : k \in SectionNames}) \ {"type"})
        \cup {"Iy", "Sz", "Wno", "d", "Qf", "tan_alpha"}

\* str.lower(), to spell the callouts
Lower(s) ==
    IF s = <<>> THEN <<>>
    ELSE [i \in DOMAIN s |->
            IF \E n \in DOMAIN UpperLetters : UpperLetters[n] = s[i]
            THEN LowerLetters[CHOOSE n \in DOMAIN UpperLetters : UpperLetters[n] = s[i]]
            ELSE s[i]]

\* the spellings of a name: as stored, in lower case, with the first letter
\* only in upper case, and with whitespace around
Spellings(n) ==
    {n, Lower(n), <<n[1]>> \o Lower(Tail(n)), <<" ">> \o n \o <<" ">>,
     <<"\t", " ">> \o Lower(n) \o <<"\n">>}

\* the callouts looked up: the spellings of every name of the database, and
\* callouts that name no shape
Callouts ==
    (UNION {Spellings(NAME_IMPERIAL[k]) : k \in SectionNames})
    \cup (UNION {Spellings(NAME_METRIC[k]) : k \in {s \in SectionNames : NAME_METRIC[s] # <<>>}})
    \cup {<<>>, <<" ">>, <<"W", "1", "8", "X", "5", "1">>,
          <<"W", "1", "8", " ", "X", "5", "0">>, <<"W", "1", "8", "*", "5", "0">>,
          <<"w", "4", "6", "0", "x", "7", "5">>}

GetAttr ==
    \E sec \in SectionNames, name \in PropNames :
        /\ call' = [fn |-> "__getattr__", module |-> "components", section |-> sec,
                    name |-> name]
        /\ result' = Returned(section_getattr(sec, name))
        /\ UNCHANGED heap

StdGetAttr ==
    \E sec \in SectionNames, name \in PropNames :
        /\ call' = [fn |-> "__getattr__", module |-> "standards", section |-> sec,
                    name |-> name]
        /\ result' = Returned(std_section_getattr(sec, name))
        /\ UNCHANGED heap

GetSection ==
    \E callout \in Callouts :
        /\ call' = [fn |-> "get_section", module |-> "components", callout |-> callout]
        /\ result' = get_section(callout)
        /\ UNCHANGED heap

StdGetSection ==
    \E callout \in Callouts :
        /\ call' = [fn |-> "get_section", module |-> "standards", callout |-> callout]
        /\ result' = std_get_section(callout)
        /\ UNCHANGED heap

NextSection ==
    \/ GetAttr
    \/ StdGetAttr
    \/ GetSection
    \/ StdGetSection

SpecSection == Init /\ [][NextSection]_vars

IsGetAttr == call.fn = "__getattr__"

\* the stored value of the name read, where the record holds the name
Stored ==
    IF SHAPE_DB[call.section][call.name] = None THEN None
    ELSE Float(SHAPE_DB[call.section][call.name])

\* the scaling groups: their names, the power of ten and the unit
ScalingGroups ==
    <<[names |-> {"Ix", "Iy", "Iz", "Iw", "Sw1", "Sw2", "Sw3"},
       factor |-> 10^6, unit |-> "mm4"],
      [names |-> {"J"}, factor |-> 10^3, unit |-> "mm4"],
      [names |-> {"Zx", "Sx", "Zy", "Sy", "Sz", "Qf", "Qw", "C",
                  "SwA", "SwB", "SwC", "SzA", "SzB", "SzC"},
       factor |-> 10^3, unit |-> "mm3"],
      [names |-> {"Cw"}, factor |-> 10^9, unit |-> "mm6"],
      [names |-> {"A", "Wno"}, factor |-> 1, unit |-> "mm2"],
      [names |-> {"d", "bf", "tf", "tw", "h", "OD", "ID", "Ht", "B", "b", "t",
                  "kdes", "kdet", "k1", "x", "y", "eo", "xp", "yp",
                  "rx", "ry", "rz", "ro", "rts", "ho", "T", "WGi", "WGo",
                  "ddet", "bfdet", "twdet", "twdet_2", "tfdet", "tnom", "tdes",
                  "zA", "zB", "zC", "wA", "wB", "wC",
                  "PA", "PA2", "PB", "PC", "PD"},
       factor |-> 1, unit |-> "mm"],
      [names |-> {"W"}, factor |-> 1, unit |-> "kg/m"]>>

GroupsOf(name) == {i \in DOMAIN ScalingGroups : name \in ScalingGroups[i].names}

\* C18: a property read decodes the stored value with the scale and unit of
\* the one scaling group its name belongs to, and returns the value of a name
\* of no group unscaled and without unit; no name is in two groups; the two
\* SectionProperties implementations decode the name identically.
Thm_C18_ScalingGroups ==
    /\ \A i, j \in DOMAIN ScalingGroups :
          i # j => ScalingGroups[i].names \cap ScalingGroups[j].names = {}
    /\ (IsGetAttr /\ call.name \in DOMAIN SHAPE_DB[call.section] /\ Stored # None) =>
          /\ result.outcome = "ok"
          /\ \A i \in GroupsOf(call.name) :
                result.value = Q(FMul(Stored, FInt(ScalingGroups[i].factor)),
                                 ScalingGroups[i].unit)
          /\ GroupsOf(call.name) = {} => result.value = Stored
          /\ section_getattr(call.section, call.name)
                = std_section_getattr(call.section, call.name)

\* the torsion constant of W18X50 read as 516 x 10^3 mm^4, its moment of
\* inertia being scaled by 10^6
Wit_C18_TorsionConstant ==
    /\ IsGetAttr /\ call.section = "W18X50" /\ call.name = "J"
    /\ result.outcome = "ok"
    /\ result.value = Q(FMul(FInt(516), FInt(1000)), "mm4")
    /\ section_getattr("W18X50", "Ix") = Q(FMul(FInt(333), FInt(1000000)), "mm4")
    /\ section_getattr("C8X18_75", "H") = FRat(894, 1000)

\* C19: a read of a property name that the section record does not hold
\* returns None instead of failing, and a name the record holds is read as
\* None only where its stored value is null.
Cex_C19_AbsentIsNone ==
    IsGetAttr =>
      /\ call.name \notin DOMAIN SHAPE_DB[call.section] =>
            result.outcome = "ok" /\ result.value = None
      /\ (/\ call.name \in DOMAIN SHAPE_DB[call.section]
          /\ result.outcome = "ok"
          /\ result.value = None) => Stored = None

IsGetSection == call.fn = "get_section"

\* a and b are the same character, or the two cases of one letter
SameLetter(a, b) ==
    \/ a = b
    \/ \E n \in DOMAIN LowerLetters : {a, b} = {LowerLetters[n], UpperLetters[n]}

\* the callout spells the name: whitespace, then the characters of the name
\* in either case, then whitespace
Spells(callout, name) ==
    /\ name # <<>>
    /\ \E lead \in 0..Len(callout) :
          /\ lead + Len(name) <= Len(callout)
          /\ \A i \in 1..Len(callout) :
                IF i > lead /\ i <= lead + Len(name)
                THEN SameLetter(callout[i], name[i - lead])
                ELSE callout[i] \in Whitespace

\* the shapes whose imperial or metric name the callout spells
Named(callout) ==
    {k \in SectionNames : \/ Spells(callout, NAME_IMPERIAL[k])
                          \/ Spells(callout, NAME_METRIC[k])}

\* C20: get_section resolves a callout that spells the imperial or the
\* metric name of a shape, in any letter case (x or X included) and with
\* whitespace around it, to the record of that shape; a callout that spells
\* neither name of any shape fails with ValueError and returns no section.
Thm_C20_GetSection ==
    IsGetSection =>
      /\ \A k \in Named(call.callout) : result = [outcome |-> "ok", section |-> k]
      /\ Named(call.callout) = {} => result = Raised("ValueError")

\* the metric name of W18X50 in lower case between whitespace is resolved
\* to the record the imperial key gives
Wit_C20_MetricLowerCase ==
    /\ IsGetSection
    /\ call.callout = <<"\t", " ", "w", "4", "6", "0", "x", "7", "4", "\n">>
    /\ result = [outcome |-> "ok", section |-> "W18X50"]
    /\ get_section(<<"W", "1", "8", "X", "5", "0">>) = result
    /\ get_section(<<"w", "4", "6", "0", "x", "7", "5">>) = Raised("ValueError")

\* Mn of the Zone-2 formula of the call at the unbraced length Lb_val
CallZone2Mn(Lb_val) ==
    InelasticLtbMoment(call.cb, CallFy, SectionAttr(call.section, "Sx"), Lb_val,
                       result.Lp.mag, result.Lr.mag, CallMp)

\* Mn of the Zone-3 formula of the call at the unbraced length Lb_val
CallZone3Mn(Lb_val) ==
    ElasticLtbMoment(call.cb, CallE, SectionAttr(call.section, "Sx"),
                     SectionAttr(call.section, "rts"), Lb_val, CallMp, CallTermGeom)

\* a and b differ by no more than a hundredth of b
Agree(a, b) == FLe(FAbs(FSub(a, b)), FMul(FRat(1, 100), FAbs(b)))

\* C21: Mn is continuous across the zone boundaries for every Cb: at Lb = Lp
\* the returned (Zone 1) Mn and the Zone-2 formula both give Mp, and at
\* Lb = Lr the returned (Zone 2) Mn and the Zone-3 formula agree within one
\* percent.
Cex_C21_Continuity ==
    (FlexureOk /\ ~WeakAxisCall) =>
      /\ CallLb = result.Lp.mag =>
            result.Mn.mag = CallMp /\ CallZone2Mn(result.Lp.mag) = CallMp
      /\ CallLb = result.Lr.mag =>
            Agree(result.Mn.mag, CallZone3Mn(result.Lr.mag))

\* the capacity the function of the call returns for the inputs of the call
\* expressed in MPa and mm^2
CallCapacityInFormulaUnits ==
    IF call.fn = "check_block_shear"
    THEN check_block_shear(InUnit(call.Agv, "mm2"), InUnit(call.Anv, "mm2"),
                           InUnit(call.Ant, "mm2"), get_material(call.material),
                           call.factored_force, call.Ubs).capacity.mag
    ELSE check_block_shear_rupture(InUnit(call.Fu, "MPa"), InUnit(call.Anv, "mm2"),
                                   InUnit(call.Ant, "mm2"), call.Ubs).capacity.mag

\* C22: no connection formula strips units: the capacity a block-shear check
\* (check_block_shear and the shared helper check_block_shear_rupture)
\* returns is the same whatever unit the same physical inputs are expressed
\* in (Fu in MPa or ksi, areas in mm^2 or cm^2).
Cex_C22_UnitIndependence ==
    (call.fn \in {"check_block_shear", "check_block_shear_rupture"} /\ result.outcome = "ok") =>
      Near(result.capacity.mag, CallCapacityInFormulaUnits)

\* a moment in kNm expressed in kip-ft (1 kip ft = 1.3558179 kNm)
KipFt(m) == FDiv(m, FRat(13558179, 10000000))

\* a is within two percent of the published value b
WithinTwoPercent(a, b) == FLe(FAbs(FSub(a, b)), FMul(FRat(2, 100), b))

\* 0.9 times the linear interpolation between Mp at Lp and 0.7 Fy Sx at Lr
CallInterpolatedMu ==
    FMul(FRat(9, 10),
         FSub(CallMp,
              FMul(FSub(CallMp,
                        FMul(FMul(FMul(FRat(7, 10), CallFy), SectionAttr(call.section, "Sx")),
                             FRat(1, 1000000))),
                   FDiv(FSub(CallLb, result.Lp.mag), FSub(result.Lr.mag, result.Lp.mag)))))

\* the benchmark call: W18X50 of 50 ksi steel, strong axis, Cb = 1.0
BenchmarkCall(length) ==
    /\ call.fn = "calculate_bending_capacity" /\ result.outcome = "ok"
    /\ call.section = "W18X50" /\ call.material = "A992"
    /\ call.axis = "strong" /\ call.cb = FOne
    /\ call.length = length

\* C23: for a supported section with Lp < Lb <= Lr and Cb = 1.0,
\* calculate_bending_capacity reports Zone 2 and a design capacity of 0.9
\* times the linear interpolation; for W18X50 with Fy = 50 ksi this is Zone 2
\* and within 2% of 306 kip-ft at Lb = 10 ft, and within 2% of 302 kip-ft at
\* Lb = 11.7 ft.
Cex_C23_Benchmark ==
    /\ (/\ call.fn = "calculate_bending_capacity" /\ result.outcome = "ok"
        /\ ~WeakAxisCall /\ call.cb = FOne
        /\ FLt(result.Lp.mag, CallLb) /\ FLe(CallLb, result.Lr.mag)) =>
          /\ result.ltb_zone = "Inelastic LTB (Zone 2)"
          /\ Near(result.Mu_capacity.mag, CallInterpolatedMu)
    /\ BenchmarkCall(Q(FInt(10), "ft")) =>
          /\ result.ltb_zone = "Inelastic LTB (Zone 2)"
          /\ WithinTwoPercent(KipFt(result.Mu_capacity.mag), FInt(306))
    /\ BenchmarkCall(Q(FRat(117, 10), "ft")) =>
          /\ result.ltb_zone = "Inelastic LTB (Zone 2)"
          /\ WithinTwoPercent(KipFt(result.Mu_capacity.mag), FInt(302))

(***************************************************************************)
(* MaterialStockManager (standards/materials/inventory.py) and             *)
(* BasePlateDesign (analysis/base_plate.py).  The thickness database is    *)
(* the JSON file the manager loads: per category the metric and imperial   *)
(* lists of standard thicknesses and the materials stocked.                *)
(***************************************************************************)
STANDARD_THICKNESSES ==
    [plate |-> [metric_mm |-> <<FInt(3), FInt(4), FInt(5), FInt(6), FInt(8), FInt(10),
                                FInt(12), FInt(16), FInt(20), FInt(25)>>,
                imperial_inch |-> <<FRat(1, 4), FRat(3, 8), FRat(1, 2), FRat(3, 4), FInt(1)>>,
                materials |-> {"A36", "G350W"}],
     sheet |-> [metric_mm |-> <<FRat(5, 10), FRat(8, 10), FInt(1), FRat(12, 10),
                                FRat(15, 10), FInt(2), FRat(25, 10), FInt(3)>>,
                imperial_inch |-> <<FRat(1, 16), FRat(1, 8), FRat(3, 16)>>,
                materials |-> {"A36"}]]

\* the position of the least element of a non-empty sequence of floats
LeastAt(s) == CHOOSE i \in DOMAIN s : \A j \in DOMAIN s : FLe(s[i], s[j])

\* s without its element at position i
Without(s, i) == SubSeq(s, 1, i - 1) \o SubSeq(s, i + 1, Len(s))

\* sorted(standards)
RECURSIVE SortedFloats(_)
SortedFloats(s) ==
    IF s = <<>> THEN <<>>
    ELSE <<s[LeastAt(s)]>> \o SortedFloats(Without(s, LeastAt(s)))

\* max(standards)
MaxFloat(s) == s[CHOOSE i \in DOMAIN s : \A j \in DOMAIN s : FGe(s[i], s[j])]

\* what _get_standard_thickness returns, and what it printed
Thickness(value, unit, printed) ==
    [outcome |-> "ok", value |-> Q(value, unit), printed |-> printed]

\* the loop over the sorted list from position i: the first entry that is
\* >= req_value; past the end, the largest entry with a warning printed
RECURSIVE next_size_up(_, _, _, _)
next_size_up(sorted_standards, req_value, unit, i) ==
    IF i > Len(sorted_standards)
    THEN Thickness(MaxFloat(sorted_standards), unit, <<"[WARNING] exceeds max standard">>)
    ELSE IF FGe(sorted_standards[i], req_value)
         THEN Thickness(sorted_standards[i], unit, <<>>)
         ELSE next_size_up(sorted_standards, req_value, unit, i + 1)

\* the standards list and unit of the system, then the search
standard_thickness_of_system(required, category, system) ==
    IF system = "metric"
    THEN next_size_up(SortedFloats(STANDARD_THICKNESSES[category].metric_mm),
                      ToMag(required, "mm"), "mm", 1)
    ELSE IF system = "imperial"
    THEN next_size_up(SortedFloats(STANDARD_THICKNESSES[category].imperial_inch),
                      ToMag(required, "inch"), "inch", 1)
    ELSE Raised("ValueError")

\* MaterialStockManager._get_standard_thickness
get_standard_thickness(required, category, system) ==
    IF category \notin DOMAIN STANDARD_THICKNESSES THEN Raised("ValueError")
    ELSE standard_thickness_of_system(required, category, system)

get_plate_thickness(required, system) == get_standard_thickness(required, "plate", system)

get_sheet_thickness(required, system) == get_standard_thickness(required, "sheet", system)

\* MaterialStockManager.check_availability
check_availability(material_name, category) ==
    IF category \notin DOMAIN STANDARD_THICKNESSES THEN FALSE
    ELSE material_name \in STANDARD_THICKNESSES[category].materials

\* get_concrete(fc_mpa): phi_c keeps its default 0.65
get_concrete(fc_mpa) == [fc_prime |-> Q(FInt(fc_mpa), "MPa"), phi_c |-> FRat(65, 100)]

\* BasePlateDesign.__init__: a dimension not given (or given as zero) is the
\* column's dimension plus 2 x 50 mm of padding
BasePlateDesign(column, load_Pu, steel_grade, concrete, plate_width_B, plate_length_N) ==
    [col |-> column, Pu |-> load_Pu, steel |-> steel_grade, conc |-> concrete,
     B |-> IF plate_width_B # None /\ plate_width_B.mag.m # 0 THEN plate_width_B
           ELSE QAdd(section_getattr(column, "bf"), QScale(FInt(2), Q(FInt(50), "mm"))),
     N |-> IF plate_length_N # None /\ plate_length_N.mag.m # 0 THEN plate_length_N
           ELSE QAdd(section_getattr(column, "d"), QScale(FInt(2), Q(FInt(50), "mm")))]

\* max() of two lengths: the first is kept unless the second is larger
QMax(a, b) == IF FGt(ToMag(b, a.unit), a.mag) THEN b ELSE a

\* t_standard: from the inventory if the steel is stocked as plate, else the
\* calculated thickness with a warning printed
base_plate_standard(self, t_req) ==
    IF ~check_availability(self.steel.name, "plate")
    THEN Thickness(t_req.mag, t_req.unit, <<"[WARNING] not in plate database">>)
    ELSE get_plate_thickness(t_req, "metric")

\* the report: steps 1 to 3 and the summary
base_plate_report(self, A1, ratio_bearing, m, n, l_cant, t_req, picked) ==
    [outcome |-> "ok",
     Area |-> A1,
     Ratio |-> ratio_bearing,
     Status |-> IF FLe(ratio_bearing, FOne) THEN "PASS" ELSE "FAIL",
     m |-> InUnit(m, "mm"), n |-> InUnit(n, "mm"), l |-> InUnit(l_cant, "mm"),
     t_required |-> InUnit(t_req, "mm"),
     t_standard |-> InUnit(picked.value, "mm"),
     printed |-> picked.printed,
     GlobalStatus |-> IF FLe(ratio_bearing, FOne) THEN "PASS" ELSE "FAIL"]

\* t_req = l sqrt((2 Pu) / (0.9 Fy A1)), then the standard thickness
base_plate_thickness(self, A1, ratio_bearing, m, n, l_cant, t_req) ==
    base_plate_report(self, A1, ratio_bearing, m, n, l_cant, t_req,
                      base_plate_standard(self, t_req))

base_plate_required(self, A1, ratio_bearing, m, n, l_cant) ==
    base_plate_thickness(self, A1, ratio_bearing, m, n, l_cant,
        QScale(FSqrt(FDiv(FMul(FInt(2), ToMag(self.Pu, "N")),
                          FMul(FMul(FRat(9, 10), ToMag(self.steel.yield_strength, "MPa")),
                               A1.mag))),
               l_cant))

\* the cantilevers m = (N - 0.95 d) / 2 and n = (B - 0.8 bf) / 2
base_plate_cantilever(self, A1, ratio_bearing, m, n) ==
    base_plate_required(self, A1, ratio_bearing, m, n, QMax(QMax(m, n), Q(FZero, "mm")))

\* bearing stress over bearing capacity 0.85 phi_c fc
base_plate_bearing(self, A1) ==
    base_plate_cantilever(self, A1,
        FDiv(FDiv(ToMag(self.Pu, "N"), A1.mag),
             FMul(FMul(FRat(85, 100), self.conc.phi_c), ToMag(self.conc.fc_prime, "MPa"))),
        QDiv(QSub(self.N, QScale(FRat(95, 100), section_getattr(self.col, "d"))), FInt(2)),
        QDiv(QSub(self.B, QScale(FRat(8, 10), section_getattr(self.col, "bf"))), FInt(2)))

\* BasePlateDesign.analyze
base_plate_analyze(self) == base_plate_bearing(self, QArea(self.B, self.N))

\* the thicknesses asked for: none, between, at and past the standard ones
RequiredThicknesses ==
    {Q(t, "mm") : t \in {FZero, FRat(13, 10), FRat(436, 100), FInt(5), FInt(25),
                         FRat(251, 10), FInt(30), FInt(100)}}
    \cup {Q(t, "inch") : t \in {FRat(1, 4), FRat(9, 10), FInt(2)}}

Systems == {"metric", "imperial", "Metric"}

CallGetPlateThickness ==
    /\ Idle
    /\ \E required \in RequiredThicknesses, system \in Systems :
        /\ call' = [fn |-> "get_plate_thickness", required |-> required, system |-> system]
        /\ result' = get_plate_thickness(required, system)
        /\ UNCHANGED heap

CallGetSheetThickness ==
    /\ Idle
    /\ \E required \in RequiredThicknesses, system \in Systems :
        /\ call' = [fn |-> "get_sheet_thickness", required |-> required, system |-> system]
        /\ result' = get_sheet_thickness(required, system)
        /\ UNCHANGED heap

\* the base plates analysed: two columns, loads up to 5000 kN, stocked and
\* unstocked steel, default and given plate dimensions
BasePlates ==
    {BasePlateDesign(column, Q(FInt(Pu), "kN"), get_material(steel), get_concrete(fc), dim, dim) :
        column \in {"W18X50", "W4X13"}, Pu \in {0, 100, 500, 2000, 5000},
        steel \in {"A36", "A992"}, fc \in {25, 30},
        dim \in {None, Q(FInt(600), "mm"), Q(FZero, "mm")}}

CallBasePlateAnalyze ==
    /\ Idle
    /\ \E bp \in BasePlates :
        /\ call' = [fn |-> "BasePlateDesign.analyze", self |-> bp]
        /\ result' = base_plate_analyze(bp)
        /\ UNCHANGED heap

NextStock ==
    \/ CallGetPlateThickness
    \/ CallGetSheetThickness
    \/ CallBasePlateAnalyze
    \/ DropResult

SpecStock == Init /\ [][NextStock]_vars

\* the entries of the standards list the call selects
CallStandards ==
    {STANDARD_THICKNESSES[IF call.fn = "get_plate_thickness" THEN "plate" ELSE "sheet"]
        [IF call.system = "metric" THEN "metric_mm" ELSE "imperial_inch"][i] :
     i \in 1..Len(STANDARD_THICKNESSES[IF call.fn = "get_plate_thickness" THEN "plate" ELSE "sheet"]
                    [IF call.system = "metric" THEN "metric_mm" ELSE "imperial_inch"])}

\* C24: get_plate_thickness and get_sheet_thickness return a standard
\* thickness >= the required one, the smallest such entry of the selected
\* list, and the t_standard of BasePlateDesign.analyze is never smaller than
\* t_required.
Cex_C24_NextSizeUp ==
    /\ (call.fn \in {"get_plate_thickness", "get_sheet_thickness"} /\ result.outcome = "ok") =>
          /\ FGe(result.value.mag, ToMag(call.required, result.value.unit))
          /\ result.value.mag \in CallStandards
          /\ \A t \in CallStandards :
                FGe(t, ToMag(call.required, result.value.unit)) => FLe(result.value.mag, t)
    /\ (call.fn = "BasePlateDesign.analyze" /\ result.outcome = "ok") =>
          FGe(result.t_standard.mag, result.t_required.mag)

\* C25: the nominal moment a flexure evaluation returns never exceeds the
\* plastic moment of the bending axis, whatever the unbraced length and Cb:
\* Mn <= Mp = Fy Zx on the strong axis in the three zones, Mn <= Fy Zy on the
\* weak axis of check_flexural_resistance; and Mu_capacity = 0.9 Mn.
Thm_C25_CappedAtMp ==
    FlexureOk =>
      /\ result.Mu_capacity.mag = FMul(FRat(9, 10), result.Mn.mag)
      /\ (call.fn = "check_flexural_resistance" /\ WeakAxisCall) =>
            FLe(result.Mn.mag,
                FMul(FMul(CallFy, SectionAttr(call.section, "Zy")), FRat(1, 1000000)))
      /\ ~(call.fn = "check_flexural_resistance" /\ WeakAxisCall) =>
            FLe(result.Mn.mag, CallMp)

\* a Zone-2 evaluation with Cb = 1.14 whose interpolated moment times Cb is
\* above Mp, returned as Mp
Wit_C25_CapActive ==
    /\ FlexureOk /\ ~WeakAxisCall
    /\ call.cb = FRat(114, 100)
    /\ result.ltb_zone = "Inelastic LTB (Zone 2)"
    /\ result.Mn.mag = CallMp
    /\ FGt(InelasticLtbMoment_uncapped(call.cb, CallFy, SectionAttr(call.section, "Sx"),
                                       CallLb, result.Lp.mag, result.Lr.mag, CallMp),
           CallMp)

(***************************************************************************)
(* The PCR41 cell (simulation/machines/pcr41.py) in a simpy environment.   *)
(* heap holds the environment (now, the event identifiers handed out, the  *)
(* scheduled events that resume a process), the two resources and, per     *)
(* job, the position of its run_job process with the times it passed its   *)
(* phases.  An event is [time, prio, eid, job]; the environment processes  *)
(* the event with the least (time, prio, eid).                             *)
(***************************************************************************)
JobIds == {1, 2, 3}

\* simpy.Resource(env, capacity)
Resource(capacity) == [capacity |-> capacity, users |-> <<>>, queue |-> <<>>]

\* ConveyorSpecs of the infeed (pcr41.py:12)
InfeedSpecs ==
    [length_mm |-> FInt(12000), max_speed_mm_sec |-> FInt(500),
     accel_mm_sec2 |-> FInt(200), max_load_kg |-> FInt(5000)]

\* the cutting speed (mm/min) the tool of a configuration reports
ToolSpeed(config) == IF config = "laser" THEN FInt(6000) ELSE FInt(3000)

\* the beams sent through the cell: total mass (kg), cut path and rapid path
\* (mm); the third is heavier than the infeed's rating
SimBeams ==
    {[mass |-> FInt(1200), cut_path_length |-> FInt(3000), rapid_path_length |-> FInt(15000)],
     [mass |-> FInt(4000), cut_path_length |-> FInt(1500), rapid_path_length |-> FInt(30000)],
     [mass |-> FInt(6000), cut_path_length |-> FInt(1500), rapid_path_length |-> FInt(15000)]}

\* the profile of transfer_time: triangle below 2 d_accel, else trapezoid
transfer_time_profile(specs, distance_mm, effective_accel, t_accel, d_accel) ==
    IF FLt(distance_mm, FMul(FInt(2), d_accel))
    THEN FMul(FInt(2), FSqrt(FDiv(distance_mm, effective_accel)))
    ELSE FAdd(FMul(FInt(2), t_accel),
              FDiv(FSub(distance_mm, FMul(FInt(2), d_accel)), specs.max_speed_mm_sec))

\* t_accel and d_accel of the effective acceleration
transfer_time_accel(specs, distance_mm, effective_accel) ==
    transfer_time_profile(specs, distance_mm, effective_accel,
        FDiv(specs.max_speed_mm_sec, effective_accel),
        FMul(FMul(FRat(5, 10), effective_accel),
             FSquare(FDiv(specs.max_speed_mm_sec, effective_accel))))

\* RollerConveyor.transfer_time: the seconds of a transfer, or ValueError
transfer_time(specs, distance_mm, beam_mass_kg) ==
    IF FGt(beam_mass_kg, specs.max_load_kg) THEN Raised("ValueError")
    ELSE [outcome |-> "ok",
          seconds |-> transfer_time_accel(specs, distance_mm,
              IF FGt(beam_mass_kg, FMul(specs.max_load_kg, FRat(5, 10)))
              THEN FMul(specs.accel_mm_sec2,
                        FMul(FDiv(specs.max_load_kg, beam_mass_kg), FRat(5, 10)))
              ELSE specs.accel_mm_sec2)]

\* PCR41_Assembly.__init__ in a new environment: no process yet
PCR41_Assembly(config) ==
    [now |-> FZero, eid |-> 0, events |-> {}, crashed |-> FALSE,
     infeed |-> [specs |-> InfeedSpecs, resource |-> Resource(1)],
     robot |-> [rapid_speed |-> FInt(30000), arm_resource |-> Resource(1)],
     tool |-> [speed_mm_min |-> ToolSpeed(config)],
     jobs |-> [j \in JobIds |->
                 [pc |-> "new", beam |-> None, transfer_start |-> None,
                  transfer_end |-> None, rapid_start |-> None, cut_end |-> None]]]

InitSim ==
    /\ heap \in {PCR41_Assembly(config) : config \in {"plasma", "laser"}}
    /\ call = [fn |-> "none"]
    /\ result = [outcome |-> "none"]

\* the event the environment processes next
Before(e1, e2) ==
    \/ FLt(e1.time, e2.time)
    \/ e1.time = e2.time /\ e1.prio < e2.prio
    \/ e1.time = e2.time /\ e1.prio = e2.prio /\ e1.eid <= e2.eid

NextEvent(env) == CHOOSE e \in env.events : \A f \in env.events : Before(e, f)

\* env.schedule: an event for job at now + delay
Scheduled(env, prio, delay, job) ==
    [env EXCEPT !.eid = @ + 1,
                !.events = @ \cup {[time |-> FAdd(env.now, delay), prio |-> prio,
                                    eid |-> env.eid, job |-> job]}]

\* env.step up to the callback: the clock moves to the event, which leaves
\* the queue
Popped(env) == [env EXCEPT !.now = NextEvent(env).time, !.events = @ \ {NextEvent(env)}]

\* the next event resumes job j at position pc
Resumes(j, pc) ==
    /\ ~heap.crashed
    /\ heap.events # {}
    /\ NextEvent(heap).job = j
    /\ heap.jobs[j].pc = pc

\* env.process(assembly.run_job(beam)): the Initialize event of the process
StartJob(j) ==
    /\ ~heap.crashed
    /\ heap.jobs[j].pc = "new"
    /\ \E beam \in SimBeams :
         heap' = [Scheduled(heap, 0, FZero, j) EXCEPT
                     !.jobs[j].pc = "created", !.jobs[j].beam = beam]
    /\ call' = [fn |-> "env.process", job |-> j]
    /\ result' = [outcome |-> "ok"]

\* run_job up to its first yield: the transfer time of the beam and the
\* timeout of that length; the infeed's resource is not requested.  An
\* exception of transfer_time leaves the process and ends the run.
run_job_infeed(env, j, travel_time) ==
    IF travel_time.outcome = "raised"
    THEN [env EXCEPT !.crashed = TRUE, !.jobs[j].pc = "failed"]
    ELSE [Scheduled(env, 1, travel_time.seconds, j) EXCEPT
             !.jobs[j].pc = "infeed", !.jobs[j].transfer_start = env.now]

RunJobStart(j) ==
    /\ Resumes(j, "created")
    /\ heap' = run_job_infeed(Popped(heap), j,
                   transfer_time(heap.infeed.specs, FInt(12000), heap.jobs[j].beam.mass))
    /\ call' = [fn |-> "run_job", job |-> j]
    /\ result' = IF heap'.crashed THEN Raised("ValueError") ELSE [outcome |-> "ok"]

\* Resource.request(): granted at once (the request event is scheduled)
\* while users are fewer than the capacity, else queued
request_granted(env, j) ==
    [Scheduled(env, 1, FZero, j) EXCEPT
        !.robot.arm_resource.users = Append(@, j), !.jobs[j].pc = "wait_arm"]

\* request that grants the arm whatever it holds
request_unlimited(env, j) == request_granted(env, j)

request(env, j) ==
    IF Len(env.robot.arm_resource.users) < env.robot.arm_resource.capacity
    THEN request_granted(env, j)
    ELSE [env EXCEPT !.robot.arm_resource.queue = Append(@, j), !.jobs[j].pc = "wait_arm"]

\* the transfer timeout fired: run_job enters execute_program, which
\* requests the arm
InfeedDone(j) ==
    /\ Resumes(j, "infeed")
    /\ heap' = request([Popped(heap) EXCEPT !.jobs[j].transfer_end = NextEvent(heap).time], j)
    /\ call' = [fn |-> "execute_program", job |-> j]
    /\ result' = [outcome |-> "ok"]

\* the request was granted: the rapid move
ArmGranted(j) ==
    /\ Resumes(j, "wait_arm")
    /\ heap' = [Scheduled(Popped(heap), 1,
                    FMul(FDiv(heap.jobs[j].beam.rapid_path_length, heap.robot.rapid_speed),
                         FInt(60)), j)
                EXCEPT !.jobs[j].pc = "rapid", !.jobs[j].rapid_start = NextEvent(heap).time]
    /\ call' = [fn |-> "rapid", job |-> j]
    /\ result' = [outcome |-> "ok"]

\* the rapid move ended: the cut, at the speed the tool reports
RapidDone(j) ==
    /\ Resumes(j, "rapid")
    /\ heap' = [Scheduled(Popped(heap), 1,
                    FMul(FDiv(heap.jobs[j].beam.cut_path_length, heap.tool.speed_mm_min),
                         FInt(60)), j)
                EXCEPT !.jobs[j].pc = "cut"]
    /\ call' = [fn |-> "cut", job |-> j]
    /\ result' = [outcome |-> "ok"]

\* Resource.release(): the user leaves, and the head of the queue, if any,
\* becomes user with its request event scheduled
release_left(env) ==
    IF env.robot.arm_resource.queue = <<>> THEN env
    ELSE [Scheduled(env, 1, FZero, Head(env.robot.arm_resource.queue)) EXCEPT
             !.robot.arm_resource.users = Append(@, Head(env.robot.arm_resource.queue)),
             !.robot.arm_resource.queue = Tail(@)]

release(env, j) ==
    release_left([env EXCEPT !.robot.arm_resource.users = SelectSeq(@, LAMBDA u : u # j)])

\* the cut ended: the with block is left, the arm released, run_job returns
CutDone(j) ==
    /\ Resumes(j, "cut")
    /\ heap' = release([Popped(heap) EXCEPT !.jobs[j].pc = "done",
                                            !.jobs[j].cut_end = NextEvent(heap).time], j)
    /\ call' = [fn |-> "release", job |-> j]
    /\ result' = [outcome |-> "ok"]

NextSim ==
    \E j \in JobIds :
        \/ StartJob(j)
        \/ RunJobStart(j)
        \/ InfeedDone(j)
        \/ ArmGranted(j)
        \/ RapidDone(j)
        \/ CutDone(j)

SpecSim == InitSim /\ [][NextSim]_vars

\* the jobs whose beam is on the infeed conveyor
OnInfeed == {j \in JobIds : heap.jobs[j].pc = "infeed"}

\* the transfer of job j began before the transfer of job k had ended
TransfersOverlap(j, k) ==
    /\ heap.jobs[j].transfer_start # None /\ heap.jobs[k].transfer_start # None
    /\ FLe(heap.jobs[k].transfer_start, heap.jobs[j].transfer_start)
    /\ \/ heap.jobs[k].transfer_end = None
       \/ FLt(heap.jobs[j].transfer_start, heap.jobs[k].transfer_end)

\* C26: only one beam is on the infeed conveyor at a time: the transfer
\* intervals of the run_job processes of one environment never overlap.
Cex_C26_OneBeamOnConveyor ==
    /\ Cardinality(OnInfeed) <= 1
    /\ \A j, k \in JobIds : j # k => ~TransfersOverlap(j, k)

\* the jobs whose program is in its rapid or cut phase
OnArm == {j \in JobIds : heap.jobs[j].pc \in {"rapid", "cut"}}

\* the users of the arm, and the jobs queued for it
ArmUsers == {heap.robot.arm_resource.users[i] : i \in 1..Len(heap.robot.arm_resource.users)}

ArmQueue == {heap.robot.arm_resource.queue[i] : i \in 1..Len(heap.robot.arm_resource.queue)}

\* job j began its rapid move before job k had finished cutting
ProgramsOverlap(j, k) ==
    /\ heap.jobs[j].rapid_start # None /\ heap.jobs[k].rapid_start # None
    /\ FLe(heap.jobs[k].rapid_start, heap.jobs[j].rapid_start)
    /\ \/ heap.jobs[k].cut_end = None
       \/ FLt(heap.jobs[j].rapid_start, heap.jobs[k].cut_end)

\* C27: execute_program holds the arm for its whole rapid-then-cut sequence:
\* at most one program is in its rapid or cut phase and it is the user of
\* the arm; a program starts its rapid move only after the one before it has
\* finished cutting; a finished program no longer holds the arm, and while a
\* program waits in the queue the arm is held by another, so that the
\* release grants it to the next one waiting.
Thm_C27_ArmExclusive ==
    /\ Cardinality(OnArm) <= 1
    /\ Len(heap.robot.arm_resource.users) <= 1
    /\ OnArm \subseteq ArmUsers
    /\ \A j, k \in JobIds : j # k => ~ProgramsOverlap(j, k)
    /\ \A j \in JobIds : heap.jobs[j].pc = "done" => j \notin ArmUsers
    /\ ArmQueue # {} => ArmUsers # {}
    /\ \A j \in ArmUsers \cup ArmQueue : heap.jobs[j].pc \in {"wait_arm", "rapid", "cut"}

\* a program ended while another waited, and the arm went to the waiting
\* one, which now moves
Wit_C27_HandOver ==
    \E j, k \in JobIds :
        /\ heap.jobs[j].pc = "done"
        /\ heap.jobs[k].pc = "rapid"
        /\ heap.jobs[k].transfer_end # None
        /\ FLt(heap.jobs[k].transfer_end, heap.jobs[j].cut_end)
        /\ heap.jobs[k].rapid_start = heap.jobs[j].cut_end
        /\ ArmUsers = {k}

(***************************************************************************)
(* FrameAnalysis (analysis/fea.py): the wrapper keeps a counter and a name  *)
(* map for the materials and for the sections it has handed to the solver. *)
(* heap is the FrameAnalysis object; its field model is the solver, held   *)
(* as the lists of the add_material, add_section and add_member calls it   *)
(* has received, in order.                                                 *)
(***************************************************************************)
MaxBeams == 3

MaxSectionCounter == 3

FeaMaterials == DOMAIN STRUCTURAL_DB

FeaSections == SectionNames

\* f"MAT_{n}" and f"SEC_{n}"
SolverId(prefix, n) == <<prefix, n>>

EmptyMap == [n \in {} |-> <<>>]

\* d[key] = value on a dict
DictSet(d, key, value) ==
    [n \in DOMAIN d \cup {key} |-> IF n = key THEN value ELSE d[n]]

\* FrameAnalysis.__init__
FrameAnalysis ==
    [_material_counter |-> 0,
     _section_counter |-> 0,
     _material_map |-> EmptyMap,
     _section_map |-> EmptyMap,
     model |-> [materials |-> <<>>, sections |-> <<>>, members |-> <<>>]]

InitFea ==
    /\ heap = FrameAnalysis
    /\ call = [fn |-> "none"]
    /\ result = [outcome |-> "none"]

\* section.name
SectionName(sec) == NAME_IMPERIAL[sec]

\* the object after _get_or_add_material(material)
get_or_add_material_self(self, material) ==
    IF material \in DOMAIN self._material_map THEN self
    ELSE [self EXCEPT
            !._material_counter = @ + 1,
            !.model.materials = Append(@, SolverId("MAT", self._material_counter)),
            !._material_map = DictSet(@, material, SolverId("MAT", self._material_counter))]

\* what _get_or_add_material(material) returns
get_or_add_material(self, material) ==
    get_or_add_material_self(self, material)._material_map[material]

\* the section properties _get_or_add_section converts, in the order read
FeaProperties == {"A", "Ix", "Iy", "J"}

\* _get_or_add_section(section) converts every property it reads
section_converts(sec) == Readable(sec, FeaProperties)

\* the object after _get_or_add_section(section): the counter is advanced
\* before the properties are read, the map is written after add_section
get_or_add_section_self(self, sec) ==
    IF SectionName(sec) \in DOMAIN self._section_map THEN self
    ELSE IF ~section_converts(sec)
    THEN [self EXCEPT !._section_counter = @ + 1]
    ELSE [self EXCEPT
            !._section_counter = @ + 1,
            !.model.sections = Append(@, SolverId("SEC", self._section_counter)),
            !._section_map = DictSet(@, SectionName(sec), SolverId("SEC", self._section_counter))]

\* _get_or_add_section(section) returns a solver id
get_or_add_section_returns(self, sec) ==
    SectionName(sec) \in DOMAIN get_or_add_section_self(self, sec)._section_map

get_or_add_section(self, sec) ==
    IF get_or_add_section_returns(self, sec)
    THEN get_or_add_section_self(self, sec)._section_map[SectionName(sec)]
    ELSE Raised("AttributeError")

\* the object after add_beam's two registrations
add_beam_registered(self, sec, material) ==
    get_or_add_section_self(get_or_add_material_self(self, material), sec)

\* the object after add_beam(name, ..., section, material)
add_beam_self(self, name, sec, material) ==
    IF ~get_or_add_section_returns(get_or_add_material_self(self, material), sec)
    THEN add_beam_registered(self, sec, material)
    ELSE [add_beam_registered(self, sec, material) EXCEPT
            !.model.members =
                Append(@, [name |-> name,
                           material_name |-> get_or_add_material(self, material),
                           section_name |->
                               get_or_add_section(get_or_add_material_self(self, material), sec)])]

add_beam(self, name, sec, material) ==
    IF get_or_add_section_returns(get_or_add_material_self(self, material), sec)
    THEN [outcome |-> "ok", value |-> None]
    ELSE Raised("AttributeError")

\* the caller adds one more member, under a name not used before
AddBeam ==
    \E sec \in FeaSections, material \in FeaMaterials :
        /\ Len(heap.model.members) < MaxBeams
        /\ heap._section_counter < MaxSectionCounter
        /\ call' = [fn |-> "add_beam", name |-> Len(heap.model.members) + 1,
                    section |-> sec, material |-> material, before |-> heap]
        /\ heap' = add_beam_self(heap, Len(heap.model.members) + 1, sec, material)
        /\ result' = add_beam(heap, Len(heap.model.members) + 1, sec, material)

NextFea == AddBeam

SpecFea == InitFea /\ [][NextFea]_vars

IsAddBeam == call.fn = "add_beam"

\* how often the solver was handed the id
Registrations(log, id) == Cardinality({i \in DOMAIN log : log[i] = id})

\* every name of the map was handed to the solver once, under its id, and the
\* solver was handed nothing else
RegisteredOnce(map, log) ==
    /\ \A n \in DOMAIN map : Registrations(log, map[n]) = 1
    /\ \A i \in DOMAIN log : \E n \in DOMAIN map : map[n] = log[i]

IdsDistinct(map) == \A m, n \in DOMAIN map : m # n => map[m] # map[n]

\* the names known before the call keep their ids
IdsStable(before, after) ==
    \A n \in DOMAIN before : n \in DOMAIN after /\ after[n] = before[n]

\* C28: after any sequence of add_beam calls every material name and every
\* section name of the maps has been registered with the solver exactly once
\* and keeps its solver id, distinct names have distinct ids, a call with a
\* known name adds nothing to the solver and leaves the counter as it was,
\* and each counter equals the size of its map.
Cex_C28_Registry ==
    /\ RegisteredOnce(heap._material_map, heap.model.materials)
    /\ RegisteredOnce(heap._section_map, heap.model.sections)
    /\ IdsDistinct(heap._material_map)
    /\ IdsDistinct(heap._section_map)
    /\ heap._material_counter = Cardinality(DOMAIN heap._material_map)
    /\ heap._section_counter = Cardinality(DOMAIN heap._section_map)
    /\ IsAddBeam =>
          /\ IdsStable(call.before._material_map, heap._material_map)
          /\ IdsStable(call.before._section_map, heap._section_map)
          /\ call.material \in DOMAIN call.before._material_map =>
                /\ heap.model.materials = call.before.model.materials
                /\ heap._material_counter = call.before._material_counter
          /\ SectionName(call.section) \in DOMAIN call.before._section_map =>
                /\ heap.model.sections = call.before.model.sections
                /\ heap._section_counter = call.before._section_counter

(***************************************************************************)
(* The legacy functions (analysis/) next to the code-layer functions       *)
(* (codes/structural/csa_s16/): the caller uses the four of them, with and *)
(* without naming the boundary conditions of a compression call.           *)
(***************************************************************************)
NextTwins ==
    \/ CallCompressiveStrength(ColumnSections, ColumnMaterials, BCLists)
    \/ CallCompressiveStrengthDefault(ColumnSections, ColumnMaterials)
    \/ CallCompressiveResistance(ColumnSections, ColumnMaterials, BCLists)
    \/ CallCompressiveResistanceDefault(ColumnSections, ColumnMaterials)
    \/ CallFlexuralResistance(BeamSections, BeamMaterials)
    \/ CallBendingCapacity(BeamSections, BeamMaterials)
    \/ DropResult

SpecTwins == Init /\ [][NextTwins]_vars

\* the list the compression call of the state evaluated
CallBoundaryConditions ==
    IF call.bcRef = "caller_list" THEN call.bc ELSE heap[call.bcRef]

\* the two compression functions on the arguments of the call
LegacyCompression ==
    calculate_compressive_strength(call.section, get_material(call.material), call.length,
                                   CallBoundaryConditions, call.bcRef)

CodeCompression ==
    check_compressive_resistance(call.section, get_material(call.material), call.length,
                                 CallBoundaryConditions, call.bcRef)

\* the two flexure functions on the arguments of the call
LegacyFlexure ==
    calculate_bending_capacity(call.section, get_material(call.material), call.length,
                               call.axis, call.cb)

CodeFlexure ==
    check_flexural_resistance(call.section, get_material(call.material), call.length,
                              call.axis, call.cb)

\* the "desc" entries of a trace, in order
Descriptions(trace) == [i \in DOMAIN trace |-> trace[i].desc]

SameCompression(a, b) ==
    /\ a.outcome = b.outcome
    /\ a.outcome = "raised" => a = b
    /\ a.outcome = "ok" =>
          /\ a.k_factor = b.k_factor
          /\ a.slenderness = b.slenderness
          /\ a.governing_axis = b.governing_axis
          /\ a.failure_mode = b.failure_mode
          /\ a.Fcr = b.Fcr
          /\ a.Pn = b.Pn
          /\ a.Pu_capacity = b.Pu_capacity
          /\ Descriptions(a.calc_trace) = Descriptions(b.calc_trace)

SameFlexure(a, b) ==
    /\ a.outcome = b.outcome
    /\ a.outcome = "raised" => a = b
    /\ a.outcome = "ok" =>
          /\ a.ltb_zone = b.ltb_zone
          /\ a.Lp = b.Lp
          /\ a.Lr = b.Lr
          /\ a.Mn = b.Mn
          /\ a.Mu_capacity = b.Mu_capacity

\* C29: on the same arguments calculate_compressive_strength and
\* check_compressive_resistance return the same K, slenderness value,
\* governing axis, failure mode, Fcr, Pn and Pu and the same sequence of
\* trace step descriptions, and on the same strong-axis arguments
\* calculate_bending_capacity and check_flexural_resistance return the same
\* zone, Lp, Lr, Mn and Mu.
Thm_C29_Interchangeable ==
    /\ IsCompression =>
          /\ result = (IF call.fn = "calculate_compressive_strength"
                       THEN LegacyCompression ELSE CodeCompression)
          /\ SameCompression(LegacyCompression, CodeCompression)
    /\ (IsFlexure /\ ~WeakAxisCall) =>
          /\ result = (IF call.fn = "calculate_bending_capacity"
                       THEN LegacyFlexure ELSE CodeFlexure)
          /\ SameFlexure(LegacyFlexure, CodeFlexure)

\* the code-layer function has evaluated a slender column (elastic buckling,
\* with the slenderness warning in the trace) and the legacy function gives
\* the same figures; the two differ in the type of the slenderness only
Wit_C29_SlenderColumn ==
    /\ call.fn = "check_compressive_resistance"
    /\ result.outcome = "ok"
    /\ result.failure_mode = "Elastic Buckling"
    /\ \E i \in DOMAIN result.calc_trace :
          result.calc_trace[i].desc = "WARNING: Slenderness Limit"
    /\ LegacyCompression.Pu_capacity = result.Pu_capacity
    /\ LegacyCompression.slenderness_type # result.slenderness_type

IsBoltShear == call.fn = "check_bolt_shear"

\* the grade of the call without "ASTM" and without the whitespace around it
CallCleanGrade == Strip(ReplaceAll(Text(call.bolt_grade), Text("ASTM"), <<>>))

\* the table entry's key contains the grade of the call or is contained in it
GradeMatches(i) ==
    \/ Contains(CallCleanGrade, Text(BOLT_STRENGTHS[i].key))
    \/ Contains(Text(BOLT_STRENGTHS[i].key), CallCleanGrade)

BoltShearSteps ==
    {"1. Bolt Parameters", "2. Bolt Area", "3. Factored Shear Resistance (Per Bolt)",
     "4. Total Shear Resistance", "5. Check Utilization"}

\* C30: check_bolt_shear does not fail on the grade string and always
\* resolves a bolt strength: with "ASTM" and the whitespace around removed,
\* the grade takes the strength of the first entry of the table (A325, F3125,
\* A490, Grade 8.8, Grade 10.9) whose key contains the grade or is contained
\* in it; a grade that matches no entry is evaluated with 825 MPa and yields
\* a PASS/FAIL verdict, and the trace holds no warning.
Thm_C30_GradeResolution ==
    IsBoltShear =>
      /\ \A g \in BoltGrades :
            check_bolt_shear(call.n_bolts, call.bolt_diameter, g,
                             call.factored_shear).outcome = result.outcome
      /\ result.outcome = "raised" => result = Raised("ZeroDivisionError") /\ call.n_bolts = 0
      /\ result.outcome = "ok" =>
            /\ \A i \in DOMAIN BOLT_STRENGTHS :
                  (GradeMatches(i) /\ \A j \in 1..(i - 1) : ~GradeMatches(j)) =>
                      result.Vr.mag = CallBoltResistance(BOLT_STRENGTHS[i].val, 1)
            /\ (\A i \in DOMAIN BOLT_STRENGTHS : ~GradeMatches(i)) =>
                  result.Vr.mag = CallBoltResistance(825, 1)
            /\ result.status \in {"PASS", "FAIL"}
            /\ \A i \in DOMAIN result.calc_trace :
                  result.calc_trace[i].desc \in BoltShearSteps

\* a grade the table does not know, evaluated with 825 MPa, and one that
\* names two entries, evaluated with the first of them
Wit_C30_UnknownGrade ==
    /\ IsBoltShear
    /\ call.bolt_grade = "B7"
    /\ \A i \in DOMAIN BOLT_STRENGTHS : ~GradeMatches(i)
    /\ result.outcome = "ok"
    /\ result.Vr.mag = CallBoltResistance(825, 1)
    /\ result.status = "FAIL"
    /\ Len(result.calc_trace) = 5
    /\ BoltStrength(CleanGrade("ASTM F3125 A490")) = 825
    /\ BoltStrength(CleanGrade("10.9")) = 1000
    /\ BoltStrength(CleanGrade("a325")) = 825
    /\ BoltStrength(CleanGrade("")) = 825

=============================================================================
